---- MODULE Spec2Model ----
(***************************************************************************)
(* Stark Voice Proxy (proxy/server.js): the per-session request lifecycle  *)
(* of POST /v1/chat/completions: silence filter, abort of the in-flight    *)
(* fetch, debounce, dedup cache, buffer phrase, keep-alive interval,       *)
(* upstream fetch, smart hold, SSE passthrough and the terminal paths.     *)
(*                                                                         *)
(* Time.  Every Date.now() of a turn is read on that turn's own clock      *)
(* clk, the milliseconds since the request arrived; start, lastChunkTime,  *)
(* the debounce timer, the keep-alive interval and the smart-hold timer    *)
(* are instants of that clock.  A dedup entry keeps its age                *)
(* (Date.now() - timestamp) instead of its timestamp.  All clocks advance  *)
(* together in Tick, to the next instant at which a timer, the upstream or *)
(* an arrival can act, and never past a timer that is due.                 *)
(*                                                                         *)
(* Text.  A string is a sequence of pieces; user text is spelt character   *)
(* by character, a phrase of the table, the voice hint and an upstream     *)
(* delta are one piece each.  Concatenation is \o.                         *)
(*                                                                         *)
(* Event loop.  One action is one macrotask together with the microtasks   *)
(* it queues: the handler of an arriving request runs to its first await,  *)
(* and then the continuations of the promises it rejected (the aborted     *)
(* fetch, the superseded debounce) run, in that order.                     *)
(***************************************************************************)
EXTENDS Integers, Sequences, FiniteSets, TLC

\* ------------------------------------------------------------ constants

DEBOUNCE_MS == 1500
KEEPALIVE_INTERVAL_MS == 10000
MIN_BUFFER_SPEECH_MS == 2500
DEDUP_WINDOW_MS == 15000
MAX_CONVERSATIONS == 50
HASH_SLICE == 200
VOICE_HINT ==
  " [Voice call - keep response under 3-4 sentences. Do NOT start with filler like 'Let me check' or 'Sure thing' - jump straight to the answer.]"
OPENCLAW_MODEL == "openclaw:main"

\* ------------------------------------------------------------ bounds

\* the granularity of time: a third of the debounce wait
TimeStep == DEBOUNCE_MS \div 3
\* a dedup entry's age stops here: one step past the eviction age
AgeCap == 2 * DEDUP_WINDOW_MS + TimeStep

NoTime == -1
NoTurn == 0
Sessions == {"default", "u1"}

Min(a, b) == IF a < b THEN a ELSE b

\* ------------------------------------------------------------ text

Whitespace == {" ", "\t", "\n", "\r"}
Ellipsis == "U+2026"

UpperCase == <<"A", "B", "C", "D", "E", "F", "G", "H", "I", "J", "K", "L", "M",
               "N", "O", "P", "Q", "R", "S", "T", "U", "V", "W", "X", "Y", "Z">>
LowerCase == <<"a", "b", "c", "d", "e", "f", "g", "h", "i", "j", "k", "l", "m",
               "n", "o", "p", "q", "r", "s", "t", "u", "v", "w", "x", "y", "z">>

LowerChar(c) ==
  IF \E i \in 1..Len(UpperCase) : UpperCase[i] = c
  THEN LowerCase[CHOOSE i \in 1..Len(UpperCase) : UpperCase[i] = c]
  ELSE c

toLowerCase(s) == [i \in 1..Len(s) |-> LowerChar(s[i])]

RECURSIVE TrimStart(_)
TrimStart(s) ==
  IF s # <<>> /\ Head(s) \in Whitespace THEN TrimStart(Tail(s)) ELSE s

RECURSIVE TrimEnd(_)
TrimEnd(s) ==
  IF s # <<>> /\ s[Len(s)] \in Whitespace
  THEN TrimEnd(SubSeq(s, 1, Len(s) - 1))
  ELSE s

trim(s) == TrimEnd(TrimStart(s))

\* String.prototype.includes
includes(s, kw) ==
  \E i \in 1..(Len(s) - Len(kw) + 1) : SubSeq(s, i, i + Len(kw) - 1) = kw

\* ------------------------------------------------------------ phrases

PHRASE_CATEGORIES ==
  <<
    [ name |-> "email",
      keywords |-> <<
        <<"e", "m", "a", "i", "l">>,
        <<"i", "n", "b", "o", "x">>,
        <<"m", "a", "i", "l">>,
        <<"u", "n", "r", "e", "a", "d">>,
        <<"s", "e", "n", "d", " ", "a", "n", " ", "e", "m", "a", "i", "l">>,
        <<"r", "e", "p", "l", "y", " ", "t", "o">>
      >>,
      initial |-> <<"Checking your inbox... ", "Pulling up your emails... ", "Let me look at your mail... ">>,
      keepAlive |-> <<"Going through your emails... ", "Still reading through them... ", "Almost done checking... ">> ],
    [ name |-> "calendar",
      keywords |-> <<
        <<"c", "a", "l", "e", "n", "d", "a", "r">>,
        <<"s", "c", "h", "e", "d", "u", "l", "e">>,
        <<"m", "e", "e", "t", "i", "n", "g">>,
        <<"a", "p", "p", "o", "i", "n", "t", "m", "e", "n", "t">>,
        <<"e", "v", "e", "n", "t">>,
        <<"f", "r", "e", "e", " ", "t", "i", "m", "e">>,
        <<"b", "u", "s", "y">>,
        <<"a", "v", "a", "i", "l", "a", "b", "i", "l", "i", "t", "y">>
      >>,
      initial |-> <<"Checking your schedule... ", "Pulling up your calendar... ", "Looking at your agenda... ">>,
      keepAlive |-> <<"Going through your events... ", "Checking the details... ", "One moment, still looking... ">> ],
    [ name |-> "weather",
      keywords |-> <<
        <<"w", "e", "a", "t", "h", "e", "r">>,
        <<"f", "o", "r", "e", "c", "a", "s", "t">>,
        <<"t", "e", "m", "p", "e", "r", "a", "t", "u", "r", "e">>,
        <<"r", "a", "i", "n">>,
        <<"s", "u", "n", "n", "y">>,
        <<"c", "o", "l", "d">>,
        <<"h", "o", "t", " ", "o", "u", "t", "s", "i", "d", "e">>
      >>,
      initial |-> <<"Checking the forecast... ", "Let me look at the weather... ">>,
      keepAlive |-> <<"Still pulling the data... ", "Almost there... ">> ],
    [ name |-> "whatsapp",
      keywords |-> <<
        <<"w", "h", "a", "t", "s", "a", "p", "p">>,
        <<"w", "h", "a", "t", "s", " ", "a", "p", "p">>
      >>,
      initial |-> <<"Checking your WhatsApp... ", "Pulling up your chats... ", "Let me look at your messages... ">>,
      keepAlive |-> <<"Going through your conversations... ", "Still reading... ", "Almost done... ">> ],
    [ name |-> "messaging",
      keywords |-> <<
        <<"m", "e", "s", "s", "a", "g", "e">>,
        <<"m", "e", "s", "s", "a", "g", "e", "s">>,
        <<"t", "e", "l", "e", "g", "r", "a", "m">>,
        <<"s", "l", "a", "c", "k">>,
        <<"d", "i", "s", "c", "o", "r", "d">>,
        <<"n", "o", "t", "i", "f", "i", "c", "a", "t", "i", "o", "n">>,
        <<"n", "o", "t", "i", "f", "i", "c", "a", "t", "i", "o", "n", "s">>,
        <<"d", "m">>,
        <<"c", "h", "a", "t">>
      >>,
      initial |-> <<"Checking your messages... ", "Let me pull those up... ", "Looking at your notifications... ">>,
      keepAlive |-> <<"Going through them... ", "Still reading... ", "Almost done... ">> ],
    [ name |-> "twitter",
      keywords |-> <<
        <<"t", "w", "i", "t", "t", "e", "r">>,
        <<"t", "w", "e", "e", "t">>,
        <<"x", ".", "c", "o", "m">>,
        <<"t", "i", "m", "e", "l", "i", "n", "e">>,
        <<"t", "r", "e", "n", "d", "i", "n", "g">>,
        <<"p", "o", "s", "t", " ", "o", "n", " ", "x">>
      >>,
      initial |-> <<"Checking your timeline... ", "Pulling up X... ", "Let me look at that... ">>,
      keepAlive |-> <<"Going through the feed... ", "Still looking... ", "Almost there... ">> ],
    [ name |-> "tasks",
      keywords |-> <<
        <<"t", "a", "s", "k">>,
        <<"t", "a", "s", "k", "s">>,
        <<"t", "o", "d", "o">>,
        <<"t", "o", "-", "d", "o">>,
        <<"t", "h", "i", "n", "g", "s">>,
        <<"r", "e", "m", "i", "n", "d", "e", "r">>,
        <<"r", "e", "m", "i", "n", "d", "e", "r", "s">>,
        <<"d", "u", "e">>
      >>,
      initial |-> <<"Checking your tasks... ", "Pulling up your to-dos... ", "Let me look at that... ">>,
      keepAlive |-> <<"Going through your list... ", "Still checking... ", "Almost done... ">> ],
    [ name |-> "health",
      keywords |-> <<
        <<"h", "e", "a", "l", "t", "h">>,
        <<"w", "h", "o", "o", "p">>,
        <<"s", "l", "e", "e", "p">>,
        <<"r", "e", "c", "o", "v", "e", "r", "y">>,
        <<"h", "e", "a", "r", "t", " ", "r", "a", "t", "e">>,
        <<"h", "r", "v">>,
        <<"s", "t", "r", "a", "i", "n">>,
        <<"w", "o", "r", "k", "o", "u", "t">>,
        <<"s", "t", "e", "p", "s">>,
        <<"f", "i", "t", "n", "e", "s", "s">>
      >>,
      initial |-> <<"Checking your health data... ", "Pulling up your stats... ", "Let me look at your recovery... ">>,
      keepAlive |-> <<"Going through the data... ", "Still pulling your metrics... ", "Almost there... ">> ],
    [ name |-> "crypto",
      keywords |-> <<
        <<"c", "r", "y", "p", "t", "o">>,
        <<"b", "i", "t", "c", "o", "i", "n">>,
        <<"b", "t", "c">>,
        <<"e", "t", "h", "e", "r", "e", "u", "m">>,
        <<"e", "t", "h">>,
        <<"h", "y", "p", "e", "r", "l", "i", "q", "u", "i", "d">>,
        <<"p", "o", "r", "t", "f", "o", "l", "i", "o">>,
        <<"p", "o", "s", "i", "t", "i", "o", "n">>,
        <<"p", "n", "l">>,
        <<"t", "r", "a", "d", "i", "n", "g">>,
        <<"p", "r", "i", "c", "e">>
      >>,
      initial |-> <<"Checking the markets... ", "Pulling up your positions... ", "Looking at the numbers... ">>,
      keepAlive |-> <<"Still crunching the data... ", "Going through your portfolio... ", "Almost done... ">> ],
    [ name |-> "search",
      keywords |-> <<
        <<"s", "e", "a", "r", "c", "h">>,
        <<"l", "o", "o", "k", " ", "u", "p">>,
        <<"f", "i", "n", "d">>,
        <<"g", "o", "o", "g", "l", "e">>,
        <<"w", "h", "a", "t", " ", "i", "s">>,
        <<"w", "h", "o", " ", "i", "s">>,
        <<"l", "o", "o", "k", " ", "f", "o", "r">>,
        <<"r", "e", "s", "e", "a", "r", "c", "h">>
      >>,
      initial |-> <<"Let me look that up... ", "Searching for that... ", "Let me find out... ">>,
      keepAlive |-> <<"Still searching... ", "Going through the results... ", "Almost there... ">> ],
    [ name |-> "code",
      keywords |-> <<
        <<"c", "o", "d", "e">>,
        <<"b", "u", "g">>,
        <<"e", "r", "r", "o", "r">>,
        <<"d", "e", "p", "l", "o", "y">>,
        <<"b", "u", "i", "l", "d">>,
        <<"c", "o", "m", "m", "i", "t">>,
        <<"r", "e", "p", "o">>,
        <<"p", "u", "l", "l", " ", "r", "e", "q", "u", "e", "s", "t">>,
        <<"g", "i", "t", "h", "u", "b">>,
        <<"m", "e", "r", "g", "e">>
      >>,
      initial |-> <<"Looking into that... ", "Checking the repo... ", "Let me pull that up... ">>,
      keepAlive |-> <<"Still going through the code... ", "Digging into the details... ", "Almost got it... ">> ],
    [ name |-> "notes",
      keywords |-> <<
        <<"n", "o", "t", "e">>,
        <<"n", "o", "t", "e", "s">>,
        <<"w", "r", "i", "t", "e", " ", "d", "o", "w", "n">>,
        <<"j", "o", "t">>,
        <<"o", "b", "s", "i", "d", "i", "a", "n">>,
        <<"s", "a", "v", "e", " ", "t", "h", "i", "s">>,
        <<"l", "o", "g", " ", "t", "h", "i", "s">>
      >>,
      initial |-> <<"On it... ", "Writing that down... ", "Let me save that... ">>,
      keepAlive |-> <<"Still working on it... ", "Almost done... ">> ],
    [ name |-> "browser",
      keywords |-> <<
        <<"b", "r", "o", "w", "s", "e", "r">>,
        <<"o", "p", "e", "n">>,
        <<"w", "e", "b", "s", "i", "t", "e">>,
        <<"u", "r", "l">>,
        <<"l", "i", "n", "k">>,
        <<"p", "a", "g", "e">>,
        <<"t", "a", "b">>,
        <<"c", "h", "r", "o", "m", "e">>
      >>,
      initial |-> <<"Opening that up... ", "Let me pull that page... ", "On it... ">>,
      keepAlive |-> <<"Still loading... ", "Almost there... ">> ],
    [ name |-> "memory",
      keywords |-> <<
        <<"r", "e", "m", "e", "m", "b", "e", "r">>,
        <<"l", "a", "s", "t", " ", "t", "i", "m", "e">>,
        <<"d", "i", "d", " ", "i">>,
        <<"h", "a", "v", "e", " ", "i">>,
        <<"h", "i", "s", "t", "o", "r", "y">>,
        <<"b", "e", "f", "o", "r", "e">>,
        <<"e", "a", "r", "l", "i", "e", "r">>,
        <<"y", "e", "s", "t", "e", "r", "d", "a", "y">>,
        <<"f", "o", "r", "g", "o", "t">>
      >>,
      initial |-> <<"Let me think back... ", "Checking my memory... ", "Let me recall... ">>,
      keepAlive |-> <<"Going through our history... ", "Looking further back... ", "Almost there... ">> ],
    [ name |-> "file",
      keywords |-> <<
        <<"f", "i", "l", "e">>,
        <<"d", "o", "c", "u", "m", "e", "n", "t">>,
        <<"f", "o", "l", "d", "e", "r">>,
        <<"d", "o", "w", "n", "l", "o", "a", "d">>,
        <<"u", "p", "l", "o", "a", "d">>,
        <<"p", "d", "f">>,
        <<"r", "e", "a", "d", " ", "t", "h", "i", "s">>
      >>,
      initial |-> <<"Grabbing that file... ", "Looking for it... ", "One sec, pulling it up... ">>,
      keepAlive |-> <<"Still looking through files... ", "Almost found it... ">> ],
    [ name |-> "music",
      keywords |-> <<
        <<"s", "o", "n", "g">>,
        <<"m", "u", "s", "i", "c">>,
        <<"p", "l", "a", "y">>,
        <<"s", "p", "o", "t", "i", "f", "y">>,
        <<"l", "i", "s", "t", "e", "n">>
      >>,
      initial |-> <<"Let me find that... ", "Looking it up... ">>,
      keepAlive |-> <<"Still searching... ", "Almost there... ">> ],
    [ name |-> "image",
      keywords |-> <<
        <<"i", "m", "a", "g", "e">>,
        <<"p", "h", "o", "t", "o">>,
        <<"p", "i", "c", "t", "u", "r", "e">>,
        <<"g", "e", "n", "e", "r", "a", "t", "e">>,
        <<"d", "r", "a", "w">>,
        <<"c", "r", "e", "a", "t", "e", " ", "a", "n", " ", "i", "m", "a", "g", "e">>,
        <<"c", "a", "m", "e", "r", "a">>,
        <<"s", "c", "r", "e", "e", "n", "s", "h", "o", "t">>
      >>,
      initial |-> <<"Working on that visual... ", "Generating that for you... ", "Let me create that... ">>,
      keepAlive |-> <<"Still rendering... ", "Almost done with the image... ", "Coming together... ">> ],
    [ name |-> "voice",
      keywords |-> <<
        <<"s", "a", "y">>,
        <<"r", "e", "a", "d", " ", "a", "l", "o", "u", "d">>,
        <<"s", "p", "e", "a", "k">>,
        <<"p", "r", "o", "n", "o", "u", "n", "c", "e">>,
        <<"v", "o", "i", "c", "e">>
      >>,
      initial |-> <<"Getting that ready... ", "One moment... ">>,
      keepAlive |-> <<"Almost ready... ">> ],
    [ name |-> "fallback",
      keywords |-> <<>>,
      initial |-> <<"Let me work on that... ", "One sec... ", "On it... ", "Let me figure this out... ", "Give me a moment... ", "Hmm... ", "Alright... ">>,
      keepAlive |-> <<"Still working on it... ", "Bear with me... ", "Almost there... ", "Just a bit longer... ", "Hang tight... ">> ]
  >>

Fallback == PHRASE_CATEGORIES[Len(PHRASE_CATEGORIES)]

CategoryHit(cat, lower) ==
  \E k \in 1..Len(cat.keywords) : includes(lower, cat.keywords[k])

\* faulty variant: of the categories that match, the last wins
firstMatch_Last(i, lower) ==
  LET hits == {j \in i..Len(PHRASE_CATEGORIES) :
                 /\ PHRASE_CATEGORIES[j].name # "fallback"
                 /\ CategoryHit(PHRASE_CATEGORIES[j], lower)}
  IN  IF hits = {} THEN Fallback
      ELSE PHRASE_CATEGORIES[CHOOSE j \in hits : \A k \in hits : k <= j]

\* the for loop of matchCategory, from the i-th entry on
RECURSIVE firstMatch(_, _)
firstMatch(i, lower) ==
  IF i > Len(PHRASE_CATEGORIES) THEN Fallback
  ELSE IF PHRASE_CATEGORIES[i].name # "fallback" /\ CategoryHit(PHRASE_CATEGORIES[i], lower)
       THEN PHRASE_CATEGORIES[i]
       ELSE firstMatch(i + 1, lower)

\* faulty variant: the text is compared as it was typed
matchCategory_CaseSensitive(text) == firstMatch(1, text)

matchCategory(text) == firstMatch(1, toLowerCase(text))

\* the indices Math.random may leave the do-while loop with
InitialChoices(cat, last) ==
  {idx \in 0..(Len(cat.initial) - 1) : ~(idx = last /\ Len(cat.initial) > 1)}

\* ------------------------------------------------------------ requests

Message(role, content) == [role |-> role, content |-> content]

Body(user, messages) ==
  [user |-> user, messages |-> messages, elevenlabs_extra_body |-> TRUE,
   model |-> "custom-llm", stream |-> FALSE]

NoBody ==
  [user |-> "", messages |-> <<>>, elevenlabs_extra_body |-> FALSE,
   model |-> "", stream |-> FALSE]

T_Dots == <<".", ".", ".">>
T_Ellipsis == <<Ellipsis>>
T_Ok == <<" ", "o", "k", " ">>
T_Mail == <<" ", "M", "a", "i", "l">>
T_Rain == <<"r", "a", "i", "n", " ">>
T_Cold == <<"C", "o", "l", "d">>
T_Note == <<"n", "o", "t", "e">>
T_Open == <<"O", "p", "e", "n">>
T_RainMail == <<"r", "a", "i", "n", " ", "M", "A", "I", "L">>
T_Method == <<"M", "e", "t", "h", "o", "d">>
T_Hello == <<"H", "e", "l", "l", "o">>

M_None == <<>>
M_Dots == <<Message("user", T_Dots)>>
M_Ellipsis == <<Message("user", T_Ellipsis)>>
M_Ok == <<Message("user", T_Ok)>>
M_Mail == <<Message("user", T_Mail)>>
M_Rain == <<Message("user", T_Rain)>>
M_Cold == <<Message("user", T_Cold)>>
M_Note == <<Message("user", T_Note)>>
M_Open == <<Message("user", T_Open)>>
M_RainMail == <<Message("user", T_RainMail)>>
M_Method == <<Message("user", T_Method)>>
M_Hello == <<Message("user", T_Hello)>>
M_MailReply == <<Message("user", T_Mail), Message("assistant", <<"a">>)>>
M_Thread ==
  <<Message("user", T_Note), Message("assistant", <<"a">>),
    Message("user", T_Mail), Message("assistant", <<"b">>)>>

getSessionId(body) == IF body.user = "" THEN "default" ELSE body.user

\* index of the last message with role "user", 0 when there is none
LastUserIdx(messages) ==
  LET us == {i \in 1..Len(messages) : messages[i].role = "user"}
  IN  IF us = {} THEN 0 ELSE CHOOSE i \in us : \A j \in us : j <= i

UserText(body) ==
  LET i == LastUserIdx(body.messages)
  IN  IF i = 0 THEN <<>> ELSE trim(body.messages[i].content)

\* faulty variant: the comparison with "..." is left out
IsSilence_NoDots(userText) ==
  \/ userText = <<>>
  \/ userText = <<Ellipsis>>
  \/ Len(userText) < 3

\* lines 262-263
IsSilence(userText) ==
  \/ userText = <<>>
  \/ userText = <<".", ".", ".">>
  \/ userText = <<Ellipsis>>
  \/ Len(userText) < 3

\* faulty variant: the hint goes to the last message, whatever its role
PrepareBody_LastMessage(body, userText) ==
  LET i == Len(body.messages)
  IN  [body EXCEPT
        !.elevenlabs_extra_body = FALSE,
        !.model = OPENCLAW_MODEL,
        !.stream = TRUE,
        !.messages = IF i = 0 THEN @
                     ELSE [@ EXCEPT ![i].content = userText \o <<VOICE_HINT>>]]

\* faulty variant: the hint is appended to the content as it came
PrepareBody_NoTrim(body, userText) ==
  LET i == LastUserIdx(body.messages)
  IN  [body EXCEPT
        !.elevenlabs_extra_body = FALSE,
        !.model = OPENCLAW_MODEL,
        !.stream = TRUE,
        !.messages = IF i = 0 THEN @
                     ELSE [@ EXCEPT ![i].content = @ \o <<VOICE_HINT>>]]

\* lines 311-315: the body as it is sent upstream
PrepareBody(body, userText) ==
  LET i == LastUserIdx(body.messages)
  IN  [body EXCEPT
        !.elevenlabs_extra_body = FALSE,
        !.model = OPENCLAW_MODEL,
        !.stream = TRUE,
        !.messages = IF i = 0 THEN @
                     ELSE [@ EXCEPT ![i].content = userText \o <<VOICE_HINT>>]]

RECURSIVE JoinBar(_)
JoinBar(parts) ==
  IF parts = <<>> THEN <<>>
  ELSE IF Len(parts) = 1 THEN parts[1]
  ELSE parts[1] \o <<"|">> \o JoinBar(Tail(parts))

\* faulty variant: every message of the body goes into the fingerprint
getRequestHash_All(messages) ==
  LET part(m) == <<m.role, ":">> \o SubSeq(m.content, 1, Min(HASH_SLICE, Len(m.content)))
  IN  JoinBar([i \in 1..Len(messages) |-> part(messages[i])])

\* lines 177-180
getRequestHash(messages) ==
  LET n == Len(messages)
      tail == SubSeq(messages, IF n > 3 THEN n - 2 ELSE 1, n)
      part(m) == <<m.role, ":">> \o SubSeq(m.content, 1, Min(HASH_SLICE, Len(m.content)))
  IN  JoinBar([i \in 1..Len(tail) |-> part(tail[i])])

\* ------------------------------------------------------------ SSE frames

\* A frame is what one res.write put on the wire; `at` is the instant of the
\* turn's clock at which it was written (write fills it in).
sseChunk(id, content) == [k |-> "chunk", id |-> id, content |-> content, at |-> 0]
DoneFrame == [k |-> "done", id |-> "", content |-> <<>>, at |-> 0]
SpaceText == <<" ">>
ApologyText == <<"Sorry, having trouble connecting. ">>

\* ------------------------------------------------------------ upstream stream

\* The upstream body is a sequence of bytes.  An ASCII byte is written as its
\* character; the one character of two bytes is U+00E9.  The JSON of a chunk
\* is written {c}: an object whose choices[0].delta.content is c, {} one with
\* no content; text not of this form is not JSON.
LeadByte == "0xC3"
TrailByte == "0xA9"
EAcute == "U+00E9"
Replacement == "U+FFFD"

\* the text of a byte sequence that ends on a character boundary: a lead byte
\* and the trail byte after it are one character, a lead byte or a trail byte
\* by itself is U+FFFD, any other byte is its character
Utf8Text(bytes) ==
  LET n == Len(bytes)
      paired(i) == bytes[i] = LeadByte /\ i < n /\ bytes[i + 1] = TrailByte
      second(i) == i > 1 /\ bytes[i] = TrailByte /\ bytes[i - 1] = LeadByte
      char(i) == IF second(i) THEN ""
                 ELSE IF paired(i) THEN EAcute
                 ELSE IF bytes[i] \in {LeadByte, TrailByte} THEN Replacement
                 ELSE bytes[i]
  IN  SelectSeq([i \in 1..n |-> char(i)], LAMBDA c : c # "")

\* faulty variant: every read is decoded by itself
TextDecoder_NoStream(pending, value) ==
  [text |-> Utf8Text(value), pending |-> <<>>]

\* line 394: decoder.decode(value, { stream: true }) keeps the bytes of a
\* character that is not complete yet for the next call
TextDecoder(pending, value) ==
  LET bytes == pending \o value
      n == Len(bytes)
      cut == IF n > 0 /\ bytes[n] = LeadByte THEN n - 1 ELSE n
  IN  [text |-> Utf8Text(SubSeq(bytes, 1, cut)), pending |-> SubSeq(bytes, cut + 1, n)]

\* String.prototype.split("\n")
RECURSIVE split(_)
split(s) ==
  IF \A i \in 1..Len(s) : s[i] # "\n" THEN <<s>>
  ELSE LET i == CHOOSE k \in 1..Len(s) : s[k] = "\n" /\ \A j \in 1..(k - 1) : s[j] # "\n"
       IN  <<SubSeq(s, 1, i - 1)>> \o split(SubSeq(s, i + 1, Len(s)))

startsWith(s, prefix) == Len(s) >= Len(prefix) /\ SubSeq(s, 1, Len(prefix)) = prefix

\* faulty variant: the text after the last newline of a read is dropped
decode_NoPartial(partial, text) ==
  LET lines == split(text)
  IN  [lines |-> SubSeq(lines, 1, Len(lines) - 1), partial |-> <<>>]

\* lines 394-396: partial += text; lines = partial.split("\n"); partial = lines.pop() || ""
decode(partial, text) ==
  LET lines == split(partial \o text)
  IN  [lines |-> SubSeq(lines, 1, Len(lines) - 1), partial |-> lines[Len(lines)]]

DataPrefix == <<"d", "a", "t", "a", ":", " ">>
DoneText == <<"[", "D", "O", "N", "E", "]">>

\* JSON.parse(payload) and chunk.choices?.[0]?.delta?.content
JSONparse(payload) ==
  LET n == Len(payload)
  IN  IF /\ n >= 2 /\ payload[1] = "{" /\ payload[n] = "}"
         /\ \A i \in 2..(n - 1) : payload[i] \notin {"{", "}"}
      THEN [ok |-> TRUE, content |-> SubSeq(payload, 2, n - 1)]
      ELSE [ok |-> FALSE, content |-> <<>>]

\* a line of the upstream stream as the for loop treats it
\*   content: a chunk with a non-empty choices[0].delta.content
\*   meta:    valid JSON with no content (a role delta, an empty delta)
\*   done:    data: [DONE]
\*   bad:     data: followed by text that is not JSON
\*   blank:   an empty line or a line that does not start with "data: "
\* c is the content, text what is written for it: the payload, or the
\* trimmed line of a payload that did not parse
Line(kind, c, text) == [kind |-> kind, c |-> c, text |-> text]
NoLine == Line("", <<>>, <<>>)

\* faulty variant: [DONE] is treated as any other payload
parseLine_KeepDone(line) ==
  LET trimmed == trim(line)
      payload == SubSeq(trimmed, Len(DataPrefix) + 1, Len(trimmed))
      chunk == JSONparse(payload)
  IN  IF trimmed = <<>> \/ ~startsWith(trimmed, DataPrefix) THEN Line("blank", <<>>, <<>>)
      ELSE IF ~chunk.ok THEN Line("bad", <<>>, trimmed)
      ELSE IF chunk.content # <<>> THEN Line("content", chunk.content, payload)
      ELSE Line("meta", <<>>, payload)

\* lines 399-407
parseLine(line) ==
  LET trimmed == trim(line)
      payload == SubSeq(trimmed, Len(DataPrefix) + 1, Len(trimmed))
      chunk == JSONparse(payload)
  IN  IF trimmed = <<>> \/ ~startsWith(trimmed, DataPrefix) THEN Line("blank", <<>>, <<>>)
      ELSE IF payload = DoneText THEN Line("done", <<>>, payload)
      ELSE IF ~chunk.ok THEN Line("bad", <<>>, trimmed)
      ELSE IF chunk.content # <<>> THEN Line("content", chunk.content, payload)
      ELSE Line("meta", <<>>, payload)

\* `data: ${payload}\n\n` of a payload that parsed, `${trimmed}\n\n` of one that did not
DataFrame(line) ==
  [k |-> "data", id |-> line.kind, content |-> line.c, at |-> 0, text |-> line.text]
RawFrame(line) ==
  [k |-> "raw", id |-> line.kind, content |-> line.c, at |-> 0, text |-> line.text]

\* the bytes of a line with the given payload, and the JSON of a content delta
DataLine(payload) == DataPrefix \o payload \o <<"\n">>
Json(c) == <<"{">> \o c \o <<"}">>

\* what one reader.read() may deliver
R_X == DataLine(Json(<<"x">>))
R_YBlank == DataLine(Json(<<"y">>)) \o <<"\n">>
R_MetaX == DataLine(Json(<<>>)) \o DataLine(Json(<<"x">>))
R_BadDone == DataLine(<<"?">>) \o DataLine(DoneText)

\* ------------------------------------------------------------ scenarios

\* A scenario bounds one run: how many requests arrive, what they carry, the
\* time between one arrival and the next, the latencies (since the fetch began)
\* at which the upstream may act, what its reads deliver, how old an open
\* turn may grow, the instants of a turn's clock at which its client may
\* close the connection, and, if the reads are the pieces of one stream, that
\* stream.
RaceTurns == 3
RaceIntervals == 1
RaceReads == 1

\* an open turn is followed for this many keep-alive intervals, and one smart hold
Life(intervals) == DEBOUNCE_MS + intervals * KEEPALIVE_INTERVAL_MS + MIN_BUFFER_SPEECH_MS

\* the instant of a turn's clock at which its last followed keep-alive fires
LastInterval(intervals) == DEBOUNCE_MS + intervals * KEEPALIVE_INTERVAL_MS

RaceScenario ==
  [ turns |-> RaceTurns,
    users |-> {"u1"},
    messages |-> {M_Dots, M_Cold, M_Rain},
    arrivals |-> {TimeStep, DEBOUNCE_MS, DEBOUNCE_MS + TimeStep},
    instants |-> {0, MIN_BUFFER_SPEECH_MS},
    reads |-> {R_X},
    maxReads |-> RaceReads,
    life |-> Life(RaceIntervals),
    hangups |-> {LastInterval(RaceIntervals)},
    stream |-> <<>> ]

\* two requests and a short upstream stream
PairTurns == 2
PairIntervals == 1
PairReads == 1

PairScenario ==
  [ turns |-> PairTurns,
    users |-> {"u1"},
    messages |-> {M_Dots, M_Mail, M_Rain},
    arrivals |-> {TimeStep, DEBOUNCE_MS, 3 * DEBOUNCE_MS},
    instants |-> {0, MIN_BUFFER_SPEECH_MS},
    reads |-> {R_X},
    maxReads |-> PairReads,
    life |-> Life(PairIntervals),
    hangups |-> {LastInterval(PairIntervals)},
    stream |-> <<>> ]

\* one request followed through a long upstream wait
StreamTurns == 1
StreamIntervals == 2
StreamReads == 2

StreamScenario ==
  [ turns |-> StreamTurns,
    users |-> {"u1"},
    messages |-> {M_Dots, M_Mail},
    arrivals |-> {TimeStep},
    instants |-> {0, TimeStep, MIN_BUFFER_SPEECH_MS,
                  KEEPALIVE_INTERVAL_MS - 1000, KEEPALIVE_INTERVAL_MS,
                  KEEPALIVE_INTERVAL_MS + TimeStep,
                  KEEPALIVE_INTERVAL_MS + MIN_BUFFER_SPEECH_MS},
    reads |-> {R_X, R_YBlank, R_MetaX, R_BadDone},
    maxReads |-> StreamReads,
    life |-> Life(StreamIntervals),
    hangups |-> {LastInterval(StreamIntervals)},
    stream |-> <<>> ]

\* requests of every kind of silence, to either session, from clients that may
\* hang up half a second after the buffer phrase
GateTurns == 2
GateIntervals == 1
GateReads == 1

GateScenario ==
  [ turns |-> GateTurns,
    users |-> {"", "u1"},
    messages |-> {M_None, M_Dots, M_Ellipsis, M_Ok, M_Mail},
    arrivals |-> {DEBOUNCE_MS},
    instants |-> {0},
    reads |-> {R_X},
    maxReads |-> GateReads,
    life |-> Life(GateIntervals),
    hangups |-> {DEBOUNCE_MS + TimeStep},
    stream |-> <<>> ]

\* requests followed through more keep-alive ticks than the shortest list they
\* meet has phrases (weather: 2), the second arriving after the first tick of
\* the first; the upstream may act at once or one second after the first tick
LongTurns == 2
LongIntervals == 3
LongReads == 2

LongScenario ==
  [ turns |-> LongTurns,
    users |-> {"u1"},
    messages |-> {M_Rain, M_Mail},
    arrivals |-> {LastInterval(1) + TimeStep},
    instants |-> {0, KEEPALIVE_INTERVAL_MS + 1000},
    reads |-> {R_X},
    maxReads |-> LongReads,
    life |-> Life(LongIntervals),
    hangups |-> {LastInterval(LongIntervals)},
    stream |-> <<>> ]

\* one upstream stream, cut into reads at any of its bytes: a content delta
\* with a character of two bytes on a line that ends in CR LF, and a payload
\* that is not JSON
SplitTurns == 1
SplitIntervals == 1
SplitReads == 2

SplitStream ==
  DataPrefix \o <<"{", LeadByte, TrailByte, "}", "\r", "\n">> \o DataLine(<<"?">>)

SplitScenario ==
  [ turns |-> SplitTurns,
    users |-> {"u1"},
    messages |-> {M_Mail},
    arrivals |-> {TimeStep},
    instants |-> {0, MIN_BUFFER_SPEECH_MS},
    reads |-> {SubSeq(SplitStream, i, j) :
                 i \in 1..Len(SplitStream), j \in 1..Len(SplitStream)} \ {<<>>},
    maxReads |-> SplitReads,
    life |-> Life(SplitIntervals),
    hangups |-> {LastInterval(SplitIntervals)},
    stream |-> SplitStream ]

\* one request whose upstream sends content, lines without content, blank
\* lines, a payload that is not JSON and [DONE] in the middle of its stream
PassTurns == 1
PassIntervals == 1
PassReads == 2

PassScenario ==
  [ turns |-> PassTurns,
    users |-> {"u1"},
    messages |-> {M_Mail},
    arrivals |-> {TimeStep},
    instants |-> {0, MIN_BUFFER_SPEECH_MS},
    reads |-> {R_X, R_YBlank, R_MetaX, R_BadDone},
    maxReads |-> PassReads,
    life |-> Life(PassIntervals),
    hangups |-> {LastInterval(PassIntervals)},
    stream |-> <<>> ]

\* the same request again and again, 9 s or 17.5 s after the one before: a
\* response stored 4 s after the first arrival is 6.5 s or 15 s old when the
\* second settles, and older when the third does
DedupTurns == 3
DedupIntervals == 1
DedupReads == 1

DedupScenario ==
  [ turns |-> DedupTurns,
    users |-> {"u1"},
    messages |-> {M_Mail},
    arrivals |-> {DEDUP_WINDOW_MS - 6000, DEDUP_WINDOW_MS + MIN_BUFFER_SPEECH_MS},
    instants |-> {0, MIN_BUFFER_SPEECH_MS},
    reads |-> {R_X},
    maxReads |-> DedupReads,
    life |-> Life(DedupIntervals),
    hangups |-> {LastInterval(DedupIntervals)},
    stream |-> <<>> ]

\* two requests 30 s or 30.5 s apart, alike or not, answered with a delta or
\* with none: the response of the first is 30 s old or older when the second
\* is stored
EvictTurns == 2
EvictIntervals == 1
EvictReads == 1

EvictScenario ==
  [ turns |-> EvictTurns,
    users |-> {"u1"},
    messages |-> {M_Mail, M_Rain},
    arrivals |-> {2 * DEDUP_WINDOW_MS, 2 * DEDUP_WINDOW_MS + TimeStep},
    instants |-> {0, MIN_BUFFER_SPEECH_MS},
    reads |-> {R_X},
    maxReads |-> EvictReads,
    life |-> Life(EvictIntervals),
    hangups |-> {LastInterval(EvictIntervals)},
    stream |-> <<>> ]

\* two requests, alike or not, to the same session or to different ones, the
\* second 9 s after the first: a response stored 4 s after the first arrival is
\* 6.5 s old when the second settles
CrossTurns == 2
CrossIntervals == 1
CrossReads == 1

CrossScenario ==
  [ turns |-> CrossTurns,
    users |-> {"", "u1"},
    messages |-> {M_Mail, M_Rain},
    arrivals |-> {DEDUP_WINDOW_MS - 6000},
    instants |-> {0, MIN_BUFFER_SPEECH_MS},
    reads |-> {R_X},
    maxReads |-> CrossReads,
    life |-> Life(CrossIntervals),
    hangups |-> {LastInterval(CrossIntervals)},
    stream |-> <<>> ]

\* one request whose text holds a keyword, in capitals or not, by itself or
\* inside a word, keywords of two categories, or none
MatchTurns == 1
MatchIntervals == 1
MatchReads == 1

MatchScenario ==
  [ turns |-> MatchTurns,
    users |-> {"u1"},
    messages |-> {M_Mail, M_Rain, M_Cold, M_Note, M_Open, M_RainMail, M_Method, M_Hello},
    arrivals |-> {TimeStep},
    instants |-> {0},
    reads |-> {R_X},
    maxReads |-> MatchReads,
    life |-> Life(MatchIntervals),
    hangups |-> {LastInterval(MatchIntervals)},
    stream |-> <<>> ]

\* one request with a body of one, two or four messages, the last of them from
\* the user or not
BodyTurns == 1
BodyIntervals == 1
BodyReads == 1

BodyScenario ==
  [ turns |-> BodyTurns,
    users |-> {"", "u1"},
    messages |-> {M_Mail, M_MailReply, M_Thread},
    arrivals |-> {DEDUP_WINDOW_MS - 6000},
    instants |-> {0, MIN_BUFFER_SPEECH_MS},
    reads |-> {R_X},
    maxReads |-> BodyReads,
    life |-> Life(BodyIntervals),
    hangups |-> {LastInterval(BodyIntervals)},
    stream |-> <<>> ]

\* two requests of different categories whose phrase lists share a phrase
PhraseScenario ==
  [ turns |-> PairTurns,
    users |-> {"u1"},
    messages |-> {M_Note, M_Open},
    arrivals |-> {TimeStep, 3 * DEBOUNCE_MS},
    instants |-> {0, MIN_BUFFER_SPEECH_MS},
    reads |-> {R_X},
    maxReads |-> PairReads,
    life |-> Life(PairIntervals),
    hangups |-> {LastInterval(PairIntervals)},
    stream |-> <<>> ]

\* ------------------------------------------------------------ state

VARIABLES
  scenario,         \* the bounds of this run
  sinceArrival,     \* time since the latest request arrived
  turns,            \* turn -> the locals of one run of the POST handler
  inFlight,         \* sessionId -> the turn whose { controller, userText } is stored
  pendingRequests,  \* sessionId -> the turn whose { timer, resolve, reject } is stored
  recentRequests,   \* hash -> { response, age }
  conversations,    \* the entries sessionId -> { messages } in the Map's insertion order
  lastInitialIdx

vars == <<scenario, sinceArrival, turns, inFlight, pendingRequests, recentRequests,
          conversations, lastInitialIdx>>

NoLookup == [found |-> FALSE, response |-> <<>>]

InitTurn ==
  [ pc |-> "idle",
    body |-> NoBody, sessionId |-> "", userText |-> <<>>,
    clk |-> 0, timer |-> NoTime,
    reqHash |-> <<>>, category |-> "",
    aborted |-> FALSE,
    start |-> 0, llmContent |-> <<>>, firstChunkMs |-> 0, lastChunkTime |-> 0,
    keepAliveIdx |-> 0, keepAliveTimer |-> NoTime,
    wake |-> NoTime, held |-> NoLine, rest |-> <<>>,
    pending |-> <<>>, partial |-> <<>>,
    reads |-> 0,
    out |-> <<>>, ended |-> FALSE,
    \* history
    path |-> "", fetched |-> FALSE, sent |-> NoBody, received |-> <<>>,
    chunks |-> <<>>,         \* the reads of the upstream body, in order
    gap |-> 0, lookup |-> NoLookup, late |-> FALSE, retired |-> FALSE,
    status |-> "",           \* upstreamRes.ok: "", "ok" or "non2xx"
    log |-> <<>>,            \* the roles this turn passed to logMessage
    after |-> "",            \* the buffer phrase written last before this turn's
    disconnected |-> FALSE ] \* the client has closed the connection

Turns == 1..scenario.turns

Bodies == {Body(u, m) : u \in scenario.users, m \in scenario.messages}

MaxOf(S) == CHOOSE x \in S : \A y \in S : y <= x

InitState ==
  /\ sinceArrival = 0
  /\ turns = [t \in Turns |-> InitTurn]
  /\ inFlight = [s \in Sessions |-> NoTurn]
  /\ pendingRequests = [s \in Sessions |-> NoTurn]
  /\ recentRequests = <<>>
  /\ conversations = <<>>
  /\ lastInitialIdx = -1

\* The state as one record, for the steps of a handler to pass along; queue
\* holds the promise reactions (microtasks) the running macrotask has queued.
World ==
  [queue |-> <<>>,
   sinceArrival |-> sinceArrival, turns |-> turns, inFlight |-> inFlight, pendingRequests |-> pendingRequests,
   recentRequests |-> recentRequests, conversations |-> conversations,
   lastInitialIdx |-> lastInitialIdx]

\* What is kept of a turn once its closed response has been seen: the summary
\* that later turns are compared with.
\* An interval that was not cleared outlives the handler, and with it the
\* variables its callback closes over.
Retire(tr) ==
  LET summary ==
        [InitTurn EXCEPT !.pc = "closed", !.retired = TRUE,
                         !.sessionId = tr.sessionId, !.userText = tr.userText,
                         !.path = tr.path, !.fetched = tr.fetched, !.gap = tr.gap,
                         !.late = tr.late]
  IN  IF tr.keepAliveTimer = NoTime THEN summary
      ELSE [summary EXCEPT !.clk = tr.clk, !.ended = tr.ended,
                           !.category = tr.category,
                           !.keepAliveTimer = tr.keepAliveTimer,
                           !.keepAliveIdx = tr.keepAliveIdx,
                           !.lastChunkTime = tr.lastChunkTime]

Commit(w) ==
  /\ turns' = [t \in Turns |->
       IF turns[t].pc = "closed" THEN Retire(w.turns[t]) ELSE w.turns[t]]
  /\ sinceArrival' = w.sinceArrival
  /\ UNCHANGED scenario
  /\ inFlight' = w.inFlight
  /\ pendingRequests' = w.pendingRequests
  /\ recentRequests' = w.recentRequests
  /\ conversations' = w.conversations
  /\ lastInitialIdx' = w.lastInitialIdx

\* ------------------------------------------------------------ helpers

\* res.write: nothing reaches the client once the response has ended
write(w, t, frame) ==
  IF w.turns[t].ended
  THEN [w EXCEPT !.turns[t].late = TRUE]
  ELSE [w EXCEPT !.turns[t].out = Append(@, [frame EXCEPT !.at = w.turns[t].clk])]

sseDone(w, t) ==
  [write(w, t, DoneFrame) EXCEPT !.turns[t].ended = TRUE]

\* faulty variant: the interval is left running
clearInterval_Skip(w, t) == w

clearInterval(w, t) == [w EXCEPT !.turns[t].keepAliveTimer = NoTime]

\* faulty variant: the entry is never deleted by the turn that set it
releaseInFlight_Keep(w, t) == w

\* faulty variant: inFlight.delete(sessionId) without the identity check
releaseInFlight_Unguarded(w, t) ==
  [w EXCEPT !.inFlight[w.turns[t].sessionId] = NoTurn]

\* if (inFlight.get(sessionId)?.controller === controller) inFlight.delete(sessionId)
releaseInFlight(w, t) ==
  LET s == w.turns[t].sessionId
  IN  IF w.inFlight[s] = t THEN [w EXCEPT !.inFlight[s] = NoTurn] ELSE w

\* the handler returns: its locals and timers are gone
Return(w, t, path) ==
  [w EXCEPT !.turns[t] =
     [@ EXCEPT !.pc = "closed", !.path = path,
               !.timer = NoTime, !.wake = NoTime,
               !.start = 0, !.firstChunkMs = 0, !.lastChunkTime = 0,
               !.held = NoLine, !.rest = <<>>, !.reads = 0,
               !.pending = <<>>, !.partial = <<>>]]

\* faulty variant: an entry of exactly the window's age is still returned
getCachedResponse_Inclusive(cache, hash) ==
  IF hash \in DOMAIN cache /\ cache[hash].age <= DEDUP_WINDOW_MS
  THEN [found |-> TRUE, response |-> cache[hash].response]
  ELSE [found |-> FALSE, response |-> <<>>]

getCachedResponse(cache, hash) ==
  IF hash \in DOMAIN cache /\ cache[hash].age < DEDUP_WINDOW_MS
  THEN [found |-> TRUE, response |-> cache[hash].response]
  ELSE [found |-> FALSE, response |-> <<>>]

\* `if (cached)`: null and the empty string are both falsy
Truthy(cached) == cached.found /\ cached.response # <<>>

\* faulty variant: nothing is evicted
cacheResponse_NoEvict(cache, hash, response, by) ==
  [h \in DOMAIN cache \cup {hash} |->
     IF h = hash THEN [response |-> response, age |-> 0, by |-> by]
     ELSE cache[h]]

cacheResponse(cache, hash, response, by) ==
  LET set == [h \in DOMAIN cache \cup {hash} |->
                IF h = hash THEN [response |-> response, age |-> 0, by |-> by]
                ELSE cache[h]]
      keep == {h \in DOMAIN set : ~(set[h].age > DEDUP_WINDOW_MS * 2)}
  IN  [h \in keep |-> set[h]]

\* faulty variant: the catch block stores what it has of the response
catchPath_Store(w, t, path) ==
  LET tr == w.turns[t]
      w1 == [clearInterval(w, t) EXCEPT !.recentRequests =
               cacheResponse(@, tr.reqHash, tr.llmContent, t)]
  IN  Return(releaseInFlight(sseDone(w1, t), t), t, path)

\* faulty variant: the catch block returns without sseDone
catchPath_NoDone(w, t, path) ==
  Return(releaseInFlight(clearInterval(w, t), t), t, path)

\* lines 434-443
catchPath(w, t, path) ==
  Return(releaseInFlight(sseDone(clearInterval(w, t), t), t), t, path)

\* ------------------------------------------------------------ arrival

Microtask(kind, t) == [kind |-> kind, turn |-> t]

\* faulty variant: the in-flight fetch of every session is aborted
abortInFlight_All(w, s) ==
  [w EXCEPT
    !.turns = [t \in DOMAIN w.turns |->
                 IF \E x \in Sessions : w.inFlight[x] = t
                 THEN [w.turns[t] EXCEPT !.aborted = TRUE] ELSE w.turns[t]],
    !.inFlight = [x \in Sessions |-> NoTurn],
    !.queue = @ \o
       (IF \E x \in Sessions \ {s} :
               w.inFlight[x] # NoTurn
               /\ w.turns[w.inFlight[x]].pc \in {"fetch", "errtext", "read"}
        THEN <<Microtask("AbortError",
                         w.inFlight[CHOOSE x \in Sessions \ {s} :
                            w.inFlight[x] # NoTurn
                            /\ w.turns[w.inFlight[x]].pc \in {"fetch", "errtext", "read"}])>>
        ELSE <<>>)
       \o (IF w.inFlight[s] # NoTurn
              /\ w.turns[w.inFlight[s]].pc \in {"fetch", "errtext", "read"}
           THEN <<Microtask("AbortError", w.inFlight[s])>> ELSE <<>>)]

\* lines 273-279.  controller.abort() rejects the fetch, the body read or the
\* text() the aborted turn awaits; a turn asleep in the smart hold awaits a
\* timer and notices nothing yet.
abortInFlight(w, s) ==
  LET e == w.inFlight[s]
  IN  IF e = NoTurn THEN w
      ELSE [w EXCEPT
             !.turns[e].aborted = TRUE,
             !.inFlight[s] = NoTurn,
             !.queue = IF w.turns[e].pc \in {"fetch", "errtext", "read"}
                       THEN Append(@, Microtask("AbortError", e)) ELSE @]

\* faulty variant: the timer is cleared and the promise is never rejected
supersedePending_NoReject(w, s) ==
  LET p == w.pendingRequests[s]
  IN  IF p = NoTurn THEN w
      ELSE [w EXCEPT !.turns[p].timer = NoTime,
                     !.pendingRequests[s] = NoTurn]

\* faulty variant: the pending request is left to its timer
supersedePending_Skip(w, s) == w

\* lines 282-287: clearTimeout, reject("superseded"), delete
supersedePending(w, s) ==
  LET p == w.pendingRequests[s]
  IN  IF p = NoTurn THEN w
      ELSE [w EXCEPT !.turns[p].timer = NoTime,
                     !.pendingRequests[s] = NoTurn,
                     !.queue = Append(@, Microtask("superseded", p))]

\* faulty variant: the wait is a third of the debounce
armPending_Short(w, s, t) ==
  [w EXCEPT !.turns[t].timer = w.turns[t].clk + TimeStep,
            !.turns[t].pc = "debounce",
            !.pendingRequests[s] = t]

\* lines 291-294
armPending(w, s, t) ==
  [w EXCEPT !.turns[t].timer = w.turns[t].clk + DEBOUNCE_MS,
            !.turns[t].pc = "debounce",
            !.pendingRequests[s] = t]

\* lines 296-307: the catch of the rejected debounce promise, in turn p
supersededResume(w, p) ==
  LET s == w.turns[p].sessionId
      w1 == [w EXCEPT !.pendingRequests[s] = NoTurn]
      w2 == write(w1, p, sseChunk("superseded", SpaceText))
  IN  Return(sseDone(w2, p), p, "superseded")

\* the place of the session's entry in the Map, 0 when it has none
EntryOf(convs, sessionId) ==
  LET at == {i \in 1..Len(convs) : convs[i].sessionId = sessionId}
  IN  IF at = {} THEN 0 ELSE CHOOSE i \in at : TRUE

\* faulty variant: the entry deleted is the second in insertion order
pushMessage_EvictSecond(convs, sessionId, message) ==
  LET had == IF EntryOf(convs, sessionId) = 0
             THEN Append(convs, [sessionId |-> sessionId, messages |-> <<>>])
             ELSE convs
      i == EntryOf(had, sessionId)
      pushed == [had EXCEPT ![i].messages = Append(@, message)]
  IN  IF Len(pushed) > MAX_CONVERSATIONS
      THEN <<pushed[1]>> \o SubSeq(pushed, 3, Len(pushed)) ELSE pushed

\* lines 196-206, logMessage on the Map: a new entry goes to the end, the
\* message to the end of the entry's messages, and of more than
\* MAX_CONVERSATIONS entries the first in insertion order is deleted
pushMessage(convs, sessionId, message) ==
  LET had == IF EntryOf(convs, sessionId) = 0
             THEN Append(convs, [sessionId |-> sessionId, messages |-> <<>>])
             ELSE convs
      i == EntryOf(had, sessionId)
      pushed == [had EXCEPT ![i].messages = Append(@, message)]
  IN  IF Len(pushed) > MAX_CONVERSATIONS THEN Tail(pushed) ELSE pushed

\* lines 270, 429: the turn appends a message of the role to the conversation
\* of its session, the user text or the LLM content
logMessage(w, t, role) ==
  LET tr == w.turns[t]
      content == IF role = "user" THEN tr.userText ELSE tr.llmContent
  IN  [w EXCEPT !.turns[t].log = Append(@, role),
                !.conversations = pushMessage(@, tr.sessionId, Message(role, content))]

\* the queued reactions run in order once the handler has reached its await
RECURSIVE drain(_)
drain(w) ==
  IF w.queue = <<>> THEN w
  ELSE LET m == Head(w.queue)
           w1 == [w EXCEPT !.queue = Tail(@)]
       IN  IF m.kind = "AbortError"
           THEN drain(catchPath(w1, m.turn, "cancelled"))
           ELSE drain(supersededResume(w1, m.turn))

\* faulty variant: the message is logged before the silence filter
Receive_LogFirst(t, body) ==
  /\ turns[t].pc = "idle"
  /\ \A a \in 1..(t - 1) : turns[a].pc # "idle"
  /\ t > 1 => sinceArrival \in scenario.arrivals
  /\ LET s == getSessionId(body)
         userText == UserText(body)
         w0 == [World EXCEPT !.sinceArrival = 0, !.turns[t] =
                  [@ EXCEPT !.body = body, !.sessionId = s, !.userText = userText,
                            !.gap = IF t = 1 THEN 0 ELSE sinceArrival]]
     IN  IF IsSilence(userText)
         THEN Commit(Return(sseDone(write(logMessage(w0, t, "user"), t,
                                          sseChunk("silence", SpaceText)), t),
                            t, "silent"))
         ELSE Commit(drain(armPending(supersedePending(abortInFlight(
                       logMessage(w0, t, "user"), s), s), s, t)))

\* lines 257-299 for the arriving request, then the microtasks it queued
Receive(t, body) ==
  /\ turns[t].pc = "idle"
  /\ \A a \in 1..(t - 1) : turns[a].pc # "idle"
  /\ t > 1 => sinceArrival \in scenario.arrivals
  /\ LET s == getSessionId(body)
         userText == UserText(body)
         w0 == [World EXCEPT !.sinceArrival = 0, !.turns[t] =
                  [@ EXCEPT !.body = body, !.sessionId = s, !.userText = userText,
                            !.gap = IF t = 1 THEN 0 ELSE sinceArrival]]
     IN  IF IsSilence(userText)
         THEN Commit(Return(sseDone(write(w0, t, sseChunk("silence", SpaceText)), t),
                            t, "silent"))
         ELSE Commit(drain(armPending(supersedePending(abortInFlight(
                       logMessage(w0, t, "user"), s), s), s, t)))

\* ------------------------------------------------------------ settle

\* faulty variant: the first phrase is taken from the keep-alive list
startTurn_KeepAlivePhrase(w, t, prepared, hash, cat, idx) ==
  LET tr == w.turns[t]
      w1 == write(w, t, sseChunk("buf", <<cat.keepAlive[1]>>))
  IN  [w1 EXCEPT
        !.lastInitialIdx = idx,
        !.inFlight[tr.sessionId] = t,
        !.turns[t] = [@ EXCEPT
           !.pc = "fetch", !.reqHash = hash, !.category = cat.name,
           !.aborted = FALSE,
           !.start = tr.clk, !.llmContent = <<>>, !.firstChunkMs = 0,
           !.lastChunkTime = tr.clk,
           !.keepAliveIdx = 0, !.keepAliveTimer = tr.clk + KEEPALIVE_INTERVAL_MS,
           !.fetched = TRUE, !.sent = prepared]]

\* lines 155-161: the phrase getContextualPhrases returned last before turn t
\* calls it: that of the latest earlier turn that wrote a buffer phrase, at the
\* index lastInitialIdx still holds
lastInitial(w, t) ==
  LET earlier == {a \in 1..(t - 1) : w.turns[a].fetched}
  IN  IF earlier = {} THEN ""
      ELSE matchCategory(w.turns[MaxOf(earlier)].userText).initial[w.lastInitialIdx + 1]

\* lines 328-360: buffer phrase, controller, keep-alive interval, fetch
startTurn(w, t, prepared, hash, cat, idx) ==
  LET tr == w.turns[t]
      w1 == write(w, t, sseChunk("buf", <<cat.initial[idx + 1]>>))
  IN  [w1 EXCEPT
        !.turns[t].after = lastInitial(w, t),
        !.lastInitialIdx = idx,
        !.inFlight[tr.sessionId] = t,
        !.turns[t] = [@ EXCEPT
           !.pc = "fetch", !.reqHash = hash, !.category = cat.name,
           !.aborted = FALSE,
           !.start = tr.clk, !.llmContent = <<>>, !.firstChunkMs = 0,
           !.lastChunkTime = tr.clk,
           !.keepAliveIdx = 0, !.keepAliveTimer = tr.clk + KEEPALIVE_INTERVAL_MS,
           !.fetched = TRUE, !.sent = prepared]]

\* faulty variant: a hit stores the response again
dedupHit_Store(w, t, hash, cached) ==
  LET w1 == [w EXCEPT !.turns[t].reqHash = hash,
                      !.recentRequests = cacheResponse(@, hash, cached.response, t)]
      w2 == write(w1, t, sseChunk("dedup", cached.response))
  IN  Return(sseDone(w2, t), t, "dedup")

\* lines 320-326
dedupHit(w, t, hash, cached) ==
  LET w1 == [w EXCEPT !.turns[t].reqHash = hash]
      w2 == write(w1, t, sseChunk("dedup", cached.response))
  IN  Return(sseDone(w2, t), t, "dedup")

\* faulty variant: the settled turn leaves its entry in the map
settlePending_Skip(w, s) == w

\* line 295
settlePending(w, s) == [w EXCEPT !.pendingRequests[s] = NoTurn]

\* the debounce timer fires: lines 295, 309-373 up to the await of fetch
Settle(t) ==
  /\ turns[t].pc = "debounce"
  /\ turns[t].timer # NoTime
  /\ turns[t].clk = turns[t].timer
  /\ LET tr == turns[t]
         w1 == [settlePending(World, tr.sessionId) EXCEPT !.turns[t].timer = NoTime]
         prepared == PrepareBody(tr.body, tr.userText)
         hash == getRequestHash(prepared.messages)
         cached == getCachedResponse(recentRequests, hash)
         w2 == [w1 EXCEPT !.turns[t].lookup = cached]
     IN  IF Truthy(cached)
         THEN Commit(dedupHit(w2, t, hash, cached))
         ELSE \E cat \in {matchCategory(tr.userText)} :
                \E idx \in InitialChoices(cat, lastInitialIdx) :
                  Commit(startTurn(w2, t, prepared, hash, cat, idx))

\* ------------------------------------------------------------ keep-alive

\* faulty variant: a phrase is due at exactly 9 s too
KeepAliveDue_Inclusive(tr) == tr.clk - tr.lastChunkTime >= KEEPALIVE_INTERVAL_MS - 1000

\* faulty variant: a phrase is due only after more than a whole interval
KeepAliveDue_Late(tr) == tr.clk - tr.lastChunkTime > KEEPALIVE_INTERVAL_MS

KeepAliveDue(tr) == tr.clk - tr.lastChunkTime > KEEPALIVE_INTERVAL_MS - 1000

CategoryNamed(name) ==
  PHRASE_CATEGORIES[CHOOSE i \in 1..Len(PHRASE_CATEGORIES) : PHRASE_CATEGORIES[i].name = name]

\* faulty variant: the counter stops at the last phrase of the list
keepAlivePhrase_NoWrap(keepAlive, keepAliveIdx) ==
  keepAlive[Min(keepAliveIdx, Len(keepAlive) - 1) + 1]

\* line 351: phrases.keepAlive[keepAliveIdx % phrases.keepAlive.length]
keepAlivePhrase(keepAlive, keepAliveIdx) ==
  keepAlive[(keepAliveIdx % Len(keepAlive)) + 1]

\* lines 349-360: one firing of the interval
KeepAliveTick(t) ==
  /\ turns[t].keepAliveTimer # NoTime
  /\ turns[t].clk = turns[t].keepAliveTimer
  /\ LET tr == turns[t]
         keepAlive == CategoryNamed(tr.category).keepAlive
         phrase == keepAlivePhrase(keepAlive, tr.keepAliveIdx)
         w0 == [World EXCEPT !.turns[t].keepAliveTimer = tr.clk + KEEPALIVE_INTERVAL_MS]
     IN  IF KeepAliveDue(tr)
         THEN Commit([write(w0, t, sseChunk("keepalive", <<phrase>>)) EXCEPT
                        !.turns[t].keepAliveIdx = @ + 1,
                        !.turns[t].lastChunkTime = tr.clk])
         ELSE Commit(w0)

\* ------------------------------------------------------------ upstream

\* the upstream acts only at the latencies of the scenario
UpstreamActs(tr) == (tr.clk - tr.start) \in scenario.instants

\* lines 375-377: fetch resolved with a non-2xx status
\* line 386: fetch resolved with a 2xx status
FetchResolve(t, ok) ==
  /\ turns[t].pc = "fetch"
  /\ UpstreamActs(turns[t])
  /\ IF ok
     THEN Commit([World EXCEPT !.turns[t].pc = "read", !.turns[t].status = "ok"])
     ELSE Commit([clearInterval(World, t) EXCEPT !.turns[t].pc = "errtext",
                                                 !.turns[t].status = "non2xx"])

\* fetch rejected with an error that is no AbortError
FetchReject(t) ==
  /\ turns[t].pc = "fetch"
  /\ UpstreamActs(turns[t])
  /\ Commit(catchPath(World, t, "error"))

\* lines 378-382
TextResolve(t) ==
  /\ turns[t].pc = "errtext"
  /\ UpstreamActs(turns[t])
  /\ LET w1 == write(World, t, sseChunk("err", ApologyText))
     IN  Commit(Return(releaseInFlight(sseDone(w1, t), t), t, "non2xx"))

TextReject(t) ==
  /\ turns[t].pc = "errtext"
  /\ UpstreamActs(turns[t])
  /\ Commit(catchPath(World, t, "error"))

\* faulty variant: the delta is put in front of the accumulated content
deliver_InFront(w, t, line) ==
  LET w1 == [w EXCEPT !.turns[t].llmContent = line.c \o @,
                      !.turns[t].lastChunkTime = w.turns[t].clk]
  IN  write(w1, t, DataFrame(line))

\* lines 416-419 for a line with content
deliver(w, t, line) ==
  LET w1 == [w EXCEPT !.turns[t].llmContent = @ \o line.c,
                      !.turns[t].lastChunkTime = w.turns[t].clk]
  IN  write(w1, t, DataFrame(line))

\* faulty variant: content is never held back
holdNeeded_Never(elapsed) == FALSE

\* line 412
holdNeeded(elapsed) == elapsed < MIN_BUFFER_SPEECH_MS

\* lines 398-423: the for loop over the lines of one read, up to the next await
RECURSIVE processLines(_, _, _)
processLines(w, t, lines) ==
  IF lines = <<>>
  THEN [w EXCEPT !.turns[t].pc = "read", !.turns[t].rest = <<>>, !.turns[t].held = NoLine]
  ELSE
    LET line == Head(lines)
        tr == w.turns[t]
        elapsed == tr.clk - tr.lastChunkTime
        first == tr.firstChunkMs = 0
        w1 == IF first THEN [w EXCEPT !.turns[t].firstChunkMs = tr.clk - tr.start] ELSE w
    IN  CASE line.kind \in {"blank", "done"} -> processLines(w, t, Tail(lines))
          [] line.kind = "meta" -> processLines(write(w, t, DataFrame(line)), t, Tail(lines))
          [] line.kind = "bad" -> processLines(write(w, t, RawFrame(line)), t, Tail(lines))
          [] line.kind = "content" ->
               IF first /\ holdNeeded(elapsed)
               THEN [w1 EXCEPT !.turns[t].pc = "hold",
                               !.turns[t].wake = tr.clk + (MIN_BUFFER_SPEECH_MS - elapsed),
                               !.turns[t].held = line,
                               !.turns[t].rest = Tail(lines)]
               ELSE processLines(deliver(w1, t, line), t, Tail(lines))

\* the content deltas of the lines of one read, in order
RECURSIVE Deltas(_)
Deltas(lines) ==
  IF lines = <<>> THEN <<>>
  ELSE (IF Head(lines).kind = "content" THEN Head(lines).c ELSE <<>>) \o Deltas(Tail(lines))

\* the concatenation of the reads
RECURSIVE Concat(_)
Concat(chunks) == IF chunks = <<>> THEN <<>> ELSE Head(chunks) \o Concat(Tail(chunks))

IsPrefix(s, whole) == Len(s) <= Len(whole) /\ SubSeq(whole, 1, Len(s)) = s

\* the read continues the stream of the scenario, if it has one
Continues(tr, value) ==
  scenario.stream = <<>> \/ IsPrefix(Concat(tr.chunks) \o value, scenario.stream)

\* lines 391-423: reader.read() resolved with data
ReadData(t, value) ==
  /\ turns[t].pc = "read"
  /\ turns[t].reads < scenario.maxReads
  /\ UpstreamActs(turns[t])
  /\ Continues(turns[t], value)
  /\ LET tr == turns[t]
         decoded == TextDecoder(tr.pending, value)
         d == decode(tr.partial, decoded.text)
         lines == [i \in 1..Len(d.lines) |-> parseLine(d.lines[i])]
         w0 == [World EXCEPT !.turns[t].reads = @ + 1,
                             !.turns[t].chunks = Append(@, value),
                             !.turns[t].pending = decoded.pending,
                             !.turns[t].partial = d.partial,
                             !.turns[t].received = @ \o Deltas(lines)]
     IN  Commit(processLines(w0, t, lines))

\* lines 426-432: reader.read() resolved with done
ReadDone(t) ==
  /\ turns[t].pc = "read"
  /\ UpstreamActs(turns[t])
  /\ LET tr == turns[t]
         w1 == clearInterval(World, t)
         w2 == [w1 EXCEPT !.recentRequests =
                  cacheResponse(w1.recentRequests, tr.reqHash, tr.llmContent, t)]
     IN  Commit(Return(releaseInFlight(sseDone(logMessage(w2, t, "assistant"), t), t),
                       t, "normal"))

\* reader.read() rejected with an error that is no AbortError
ReadReject(t) ==
  /\ turns[t].pc = "read"
  /\ UpstreamActs(turns[t])
  /\ Commit(catchPath(World, t, "error"))

\* line 413: the smart-hold timer fires; the loop goes on, and the next
\* reader.read() of an aborted turn rejects at once
HoldWake(t) ==
  /\ turns[t].pc = "hold"
  /\ turns[t].clk = turns[t].wake
  /\ LET tr == turns[t]
         w0 == [World EXCEPT !.turns[t].wake = NoTime]
         w1 == processLines(deliver(w0, t, tr.held), t, tr.rest)
     IN  IF w1.turns[t].pc = "read" /\ w1.turns[t].aborted
         THEN Commit(catchPath(w1, t, "cancelled"))
         ELSE Commit(w1)

\* ------------------------------------------------------------ client

Open(tr) == tr.pc \notin {"idle", "closed"}

\* The client closes the connection of an open turn.  The handler registers no
\* listener on req or res, so nothing of the turn changes; writes that follow
\* are still made, to a socket that is gone.
ClientClose(t) ==
  /\ Open(turns[t])
  /\ ~turns[t].disconnected
  /\ turns[t].clk \in scenario.hangups
  /\ Commit([World EXCEPT !.turns[t].disconnected = TRUE])

\* ------------------------------------------------------------ time

TimerDue(tr) ==
  \/ tr.pc = "debounce" /\ tr.timer # NoTime /\ tr.clk >= tr.timer
  \/ tr.keepAliveTimer # NoTime /\ tr.clk >= tr.keepAliveTimer
  \/ tr.pc = "hold" /\ tr.clk >= tr.wake

\* the turn's clock is still read: by its handler or by its interval
Running(tr) == Open(tr) \/ tr.keepAliveTimer # NoTime

\* the instants of its clock at which something can happen to a turn
TurnInstants(tr) ==
  (IF tr.pc = "debounce" /\ tr.timer # NoTime THEN {tr.timer} ELSE {})
    \cup (IF tr.keepAliveTimer # NoTime THEN {tr.keepAliveTimer} ELSE {})
    \cup (IF tr.pc = "hold" THEN {tr.wake} ELSE {})
    \cup (IF tr.pc \in {"fetch", "errtext", "read"}
          THEN {tr.start + i : i \in scenario.instants} ELSE {})
    \cup (IF Open(tr) /\ ~tr.disconnected THEN scenario.hangups ELSE {})

\* how long until something can happen: a timer fires, the upstream may act,
\* the next request may arrive
Delays ==
  UNION {{x - turns[t].clk : x \in {y \in TurnInstants(turns[t]) :
                                      y > turns[t].clk /\ y <= scenario.life}} :
         t \in {u \in Turns : Running(turns[u])}}
    \cup (IF /\ \E t \in Turns : turns[t].pc = "idle"
             /\ \E t \in Turns : turns[t].pc # "idle"
          THEN {a - sinceArrival : a \in {b \in scenario.arrivals : b > sinceArrival}}
          ELSE {})

MinOf(S) == CHOOSE x \in S : \A y \in S : x <= y

\* Time passes, up to the next instant at which something can happen; it does
\* not pass while a timer is due.
Tick ==
  /\ \A t \in Turns : ~TimerDue(turns[t])
  /\ Delays # {}
  /\ LET d == MinOf(Delays)
     IN  /\ sinceArrival' = Min(sinceArrival + d, MaxOf(scenario.arrivals) + TimeStep)
         /\ turns' = [t \in Turns |->
              IF turns[t].pc = "idle" THEN turns[t]
              ELSE IF turns[t].pc = "closed"
                   THEN Retire(IF Running(turns[t])
                               THEN [turns[t] EXCEPT !.clk = @ + d] ELSE turns[t])
              ELSE [turns[t] EXCEPT !.clk = @ + d]]
         /\ recentRequests' = [h \in DOMAIN recentRequests |->
              [recentRequests[h] EXCEPT !.age = Min(@ + d, AgeCap)]]
  /\ UNCHANGED <<scenario, inFlight, pendingRequests, conversations, lastInitialIdx>>

\* ------------------------------------------------------------ the log by itself

\* logMessage called for one session after another while no request is in
\* progress.  Sessions are numbered in the order in which they first log: the
\* caller is a session that has not logged yet, the session of the oldest or
\* of the newest entry, or session 1 come back after its entry was deleted.
LogSessions == 52
LogReplies == 1

\* the messages the log holds beyond the first of each entry
Replies(convs) ==
  Cardinality({i \in 1..Len(convs) : Len(convs[i].messages) > 1})

LogCallers(convs) ==
  IF convs = <<>> THEN {1}
  ELSE LET ids == {convs[i].sessionId : i \in 1..Len(convs)}
       IN  {n \in {MaxOf(ids) + 1} : n <= LogSessions}
           \cup ({1} \ ids)
           \cup {n \in {convs[1].sessionId, convs[Len(convs)].sessionId} :
                   /\ Replies(convs) < LogReplies
                   /\ Len(convs[EntryOf(convs, n)].messages) = 1}

\* lines 196-206: one call of logMessage, with the user text of a session
\* that has no entry and with the reply to it for one that has
LogAppend(sessionId) ==
  /\ conversations' =
       pushMessage(conversations, sessionId,
                   IF EntryOf(conversations, sessionId) = 0
                   THEN Message("user", T_Mail) ELSE Message("assistant", <<"x">>))
  /\ UNCHANGED <<scenario, sinceArrival, turns, inFlight, pendingRequests,
                 recentRequests, lastInitialIdx>>

NextLog == \E sessionId \in LogCallers(conversations) : LogAppend(sessionId)

\* ------------------------------------------------------------ specification

Next ==
  \/ \E t \in Turns, body \in Bodies : Receive(t, body)
  \/ \E t \in Turns : Settle(t)
  \/ \E t \in Turns : KeepAliveTick(t)
  \/ \E t \in Turns, ok \in BOOLEAN : FetchResolve(t, ok)
  \/ \E t \in Turns : FetchReject(t)
  \/ \E t \in Turns : TextResolve(t)
  \/ \E t \in Turns : TextReject(t)
  \/ \E t \in Turns, value \in scenario.reads : ReadData(t, value)
  \/ \E t \in Turns : ReadDone(t)
  \/ \E t \in Turns : ReadReject(t)
  \/ \E t \in Turns : HoldWake(t)
  \/ \E t \in Turns : ClientClose(t)
  \/ Tick

InitRace == scenario = RaceScenario /\ InitState

SpecRace == InitRace /\ [][Next]_vars

InitPair == scenario = PairScenario /\ InitState

Spec == InitPair /\ [][Next]_vars

InitStream == scenario = StreamScenario /\ InitState

SpecStream == InitStream /\ [][Next]_vars

InitGate == scenario = GateScenario /\ InitState

SpecGate == InitGate /\ [][Next]_vars

InitLong == scenario = LongScenario /\ InitState

SpecLong == InitLong /\ [][Next]_vars

InitSplit == scenario = SplitScenario /\ InitState

SpecSplit == InitSplit /\ [][Next]_vars

InitPass == scenario = PassScenario /\ InitState

SpecPass == InitPass /\ [][Next]_vars

InitDedup == scenario = DedupScenario /\ InitState

SpecDedup == InitDedup /\ [][Next]_vars

InitEvict == scenario = EvictScenario /\ InitState

SpecEvict == InitEvict /\ [][Next]_vars

InitCross == scenario = CrossScenario /\ InitState

SpecCross == InitCross /\ [][Next]_vars

InitLog == scenario = PassScenario /\ InitState

SpecLog == InitLog /\ [][NextLog]_vars

InitMatch == scenario = MatchScenario /\ InitState

SpecMatch == InitMatch /\ [][Next]_vars

InitBody == scenario = BodyScenario /\ InitState

SpecBody == InitBody /\ [][Next]_vars

InitPhrase == scenario = PhraseScenario /\ InitState

SpecPhrase == InitPhrase /\ [][Next]_vars

\* ------------------------------------------------------------ reading a run

Arrived(t) == turns[t].pc # "idle"
NonSilent(t) == Arrived(t) /\ ~IsSilence(turns[t].userText)

\* the turn has arrived and its response is still on record
Live(t) == Arrived(t) /\ ~turns[t].retired

\* milliseconds between the arrival of turn a and the arrival of the later turn b
RECURSIVE ArrivalGap(_, _)
ArrivalGap(a, b) == IF b <= a THEN 0 ELSE turns[b].gap + ArrivalGap(a, b - 1)

\* the turn's upstream fetch has been started and is neither finished nor cancelled
FetchActive(t) ==
  /\ turns[t].pc \in {"fetch", "errtext", "read", "hold"}
  /\ ~turns[t].aborted

EndsWithDone(out) == out # <<>> /\ out[Len(out)].k = "done"
DoneCount(out) == Cardinality({i \in 1..Len(out) : out[i].k = "done"})

\* one chunk with the given content, then [DONE]
OneChunkThenDone(out, content) ==
  /\ Len(out) = 2
  /\ out[1].k = "chunk" /\ out[1].content = content
  /\ out[2].k = "done"

IsFiller(f) == f.k = "chunk" /\ f.id \in {"buf", "keepalive"}
IsLLMContent(f) == f.k = "data" /\ f.id = "content"
KeepAlives(out) == {i \in 1..Len(out) : out[i].k = "chunk" /\ out[i].id = "keepalive"}

\* the content of the last user message of a request body
LastUserContent(body) == body.messages[LastUserIdx(body.messages)].content

\* ------------------------------------------------------------ claims

\* C1: of two non-silent POSTs to one session that arrive less than 1500 ms
\* apart, the earlier never issues an upstream call, and its response, once
\* closed, ends with [DONE]; for every such pair of any sequence of requests.
C1_OneTurnAtATime ==
  \A a \in Turns : \A b \in Turns :
    ( /\ a < b /\ NonSilent(a) /\ NonSilent(b)
      /\ turns[a].sessionId = turns[b].sessionId
      /\ ArrivalGap(a, b) < DEBOUNCE_MS )
    => /\ ~turns[a].fetched
       /\ (turns[a].pc = "closed" /\ ~turns[a].retired) => EndsWithDone(turns[a].out)

\* a superseded turn made no upstream call and its whole response is the one
\* chunk " " followed by [DONE]: no buffer phrase, no keep-alive phrase
SupersededIsQuiet ==
  \A t \in Turns :
    turns[t].path = "superseded" =>
      /\ ~turns[t].fetched
      /\ ~turns[t].retired => OneChunkThenDone(turns[t].out, SpaceText)

\* a and b are the only two requests the session has received, both reach the
\* debounce, and they carry different user text
TwoPosts(a, b) ==
  /\ a < b /\ NonSilent(a) /\ NonSilent(b)
  /\ turns[a].sessionId = turns[b].sessionId
  /\ {t \in Turns : Arrived(t) /\ turns[t].sessionId = turns[a].sessionId} = {a, b}
  /\ turns[a].userText # turns[b].userText

\* the first of the two made no upstream call, and a call of the second
\* carries the second text
OnlySecondCalls(a, b) ==
  /\ ~turns[a].fetched
  /\ (turns[b].fetched /\ ~turns[b].retired) =>
       LastUserContent(turns[b].sent) = turns[b].userText \o <<VOICE_HINT>>

\* C2 as stated: a superseded turn is quiet, and of two POSTs at most 1500 ms
\* apart with different user text only the second reaches the upstream.
C2_AtMostDebounceApart ==
  /\ SupersededIsQuiet
  /\ \A a \in Turns : \A b \in Turns :
       (TwoPosts(a, b) /\ ArrivalGap(a, b) <= DEBOUNCE_MS) => OnlySecondCalls(a, b)

\* C2, amended: a superseded turn is quiet, and of two POSTs less than 1500 ms
\* apart with different user text only the second reaches the upstream.
C2_WithinDebounce ==
  /\ SupersededIsQuiet
  /\ \A a \in Turns : \A b \in Turns :
       (TwoPosts(a, b) /\ ArrivalGap(a, b) < DEBOUNCE_MS) => OnlySecondCalls(a, b)

\* the first of two POSTs 500 ms apart was superseded and the second has called
\* the upstream
C2_Witness ==
  \E a \in Turns : \E b \in Turns :
    /\ TwoPosts(a, b) /\ ArrivalGap(a, b) < DEBOUNCE_MS
    /\ turns[a].path = "superseded"
    /\ turns[b].fetched /\ ~turns[b].retired

\* C3: in every session at most one turn has an upstream fetch that is neither
\* finished nor cancelled, and that turn is the one registered as in flight.
C3_OneActiveFetch ==
  \A s \in Sessions :
    LET active == {t \in Turns : turns[t].sessionId = s /\ FetchActive(t)}
    IN  /\ Cardinality(active) <= 1
        /\ \A t \in active : inFlight[s] = t

\* the last user message of the request, trimmed, is empty, "...", the one
\* character ellipsis, or shorter than 3 characters
SilentText(text) ==
  \/ text = <<>>
  \/ text = <<".", ".", ".">>
  \/ text = <<Ellipsis>>
  \/ Len(text) < 3

\* C4: a request whose last user message, trimmed, is empty, "...", the
\* ellipsis character or shorter than 3 characters is answered with exactly one
\* chunk " " followed by [DONE], and no upstream call is issued for it.
C4_SilenceGate ==
  \A t \in Turns :
    (Arrived(t) /\ SilentText(turns[t].userText)) =>
      /\ turns[t].pc = "closed"
      /\ ~turns[t].fetched
      /\ ~turns[t].retired => OneChunkThenDone(turns[t].out, SpaceText)

\* a request whose text is "..." has been answered
C4_Witness ==
  \E t \in Turns :
    /\ Live(t) /\ turns[t].userText = <<".", ".", ".">>
    /\ OneChunkThenDone(turns[t].out, SpaceText)

\* C5: every turn, whichever way it ends, writes exactly one [DONE] frame,
\* writes it last, and then closes the response: a closed turn has written one
\* [DONE], [DONE] is the last frame of any response that holds it, the response
\* is ended exactly when [DONE] is written, and nothing is written after it.
C5_OneDoneLast ==
  \A t \in Turns :
    /\ ~turns[t].late
    /\ Live(t) =>
         /\ DoneCount(turns[t].out) <= 1
         /\ turns[t].ended <=> EndsWithDone(turns[t].out)
         /\ DoneCount(turns[t].out) = 1 => EndsWithDone(turns[t].out)
         /\ turns[t].pc = "closed" <=> turns[t].ended

\* a turn cancelled by a newer request after it had sent its buffer phrase has
\* closed with [DONE]
C5_Witness ==
  \E t \in Turns :
    /\ Live(t) /\ turns[t].path = "cancelled"
    /\ Len(turns[t].out) >= 2 /\ EndsWithDone(turns[t].out)

\* the initial phrases of the category the text matches, as chunk contents
InitialPhrases(text) ==
  LET initial == matchCategory(text).initial
  IN  {<<initial[i]>> : i \in 1..Len(initial)}

\* C6: in a turn that is not silent, not superseded and not a dedup hit the
\* buffer phrase is the first chunk written, before every keep-alive chunk and
\* every forwarded upstream payload, and it is one of the initial phrases of the
\* category the user text matches.
C6_BufferFirst ==
  \A t \in Turns :
    (Live(t) /\ turns[t].path \notin {"silent", "superseded", "dedup"}
             /\ turns[t].out # <<>>) =>
      LET out == turns[t].out
      IN  /\ out[1].k = "chunk" /\ out[1].id = "buf"
          /\ out[1].content \in InitialPhrases(turns[t].userText)
          /\ \A i \in 2..Len(out) : out[i].id # "buf"

\* a turn has written its buffer phrase, a keep-alive phrase and a forwarded
\* payload, in this order
C6_Witness ==
  \E t \in Turns :
    /\ Live(t) /\ Len(turns[t].out) >= 3
    /\ turns[t].out[1].id = "buf"
    /\ turns[t].out[2].id = "keepalive"
    /\ turns[t].out[3].k \in {"data", "raw"}

\* C7: the first LLM content chunk of a turn is written no earlier than 2500 ms
\* after the buffer phrase and after every keep-alive phrase written before it.
C7_SmartHold ==
  \A t \in Turns :
    Live(t) =>
      LET out == turns[t].out
      IN  \A j \in 1..Len(out) :
            (IsLLMContent(out[j]) /\ \A i \in 1..(j - 1) : ~IsLLMContent(out[i])) =>
              \A i \in 1..(j - 1) :
                IsFiller(out[i]) => out[j].at - out[i].at >= MIN_BUFFER_SPEECH_MS

\* content that arrived 500 ms after a keep-alive phrase has been written, after
\* the hold
C7_Witness ==
  \E t \in Turns :
    /\ Live(t) /\ Len(turns[t].out) >= 3
    /\ turns[t].out[2].id = "keepalive"
    /\ IsLLMContent(turns[t].out[3])
    /\ turns[t].received # <<>>
    /\ turns[t].out[3].at - turns[t].out[2].at = MIN_BUFFER_SPEECH_MS

\* the turn waits on the upstream and no LLM content has arrived
WaitingNoContent(t) ==
  /\ turns[t].pc \in {"fetch", "read"}
  /\ ~turns[t].aborted
  /\ turns[t].received = <<>>

\* C8: while a turn that has sent its buffer phrase waits on the upstream and
\* no LLM content has arrived, a keep-alive phrase is written every 10 s counted
\* from the buffer phrase, the wait for the first response byte included: once
\* k * 10 s have passed the response holds k keep-alive phrases, the i-th
\* written i * 10 s after the buffer phrase.
C8_KeepAliveCadence ==
  \A t \in Turns :
    (Live(t) /\ WaitingNoContent(t)) =>
      LET out == turns[t].out
          waited == turns[t].clk - out[1].at
          due == IF waited % KEEPALIVE_INTERVAL_MS = 0
                    /\ turns[t].keepAliveTimer = turns[t].clk
                 THEN (waited \div KEEPALIVE_INTERVAL_MS) - 1
                 ELSE waited \div KEEPALIVE_INTERVAL_MS
          ka == KeepAlives(out)
      IN  /\ Cardinality(ka) = due
          /\ \A i \in ka :
               out[i].at - out[1].at =
                 Cardinality({j \in ka : j <= i}) * KEEPALIVE_INTERVAL_MS

\* a turn still waiting for the first response byte after 20 s has written two
\* keep-alive phrases
C8_Witness ==
  \E t \in Turns :
    /\ Live(t) /\ turns[t].pc = "fetch"
    /\ Cardinality(KeepAlives(turns[t].out)) = 2

\* C9: a settled turn whose dedup check finds a response stored less than 15 s
\* before, whatever that response is, answers with exactly one chunk holding the
\* stored response followed by [DONE], and makes no upstream call.
C9_DedupHit ==
  \A t \in Turns :
    turns[t].lookup.found =>
      /\ ~turns[t].fetched
      /\ ~turns[t].retired => OneChunkThenDone(turns[t].out, turns[t].lookup.response)

\* the phrases of the phrase table, the space chunk and the error text
FillerPieces ==
  UNION {{PHRASE_CATEGORIES[i].initial[j] : j \in 1..Len(PHRASE_CATEGORIES[i].initial)}
         \cup {PHRASE_CATEGORIES[i].keepAlive[j] : j \in 1..Len(PHRASE_CATEGORIES[i].keepAlive)}
           : i \in 1..Len(PHRASE_CATEGORIES)}
  \cup {SpaceText[1], ApologyText[1]}

\* C10: every value in the dedup cache is the in-order concatenation of the
\* content deltas the upstream delivered during the turn that stored it, and
\* holds no buffer phrase, keep-alive phrase, space chunk or error text.
C10_CacheIsLLMContent ==
  \A h \in DOMAIN recentRequests :
    LET e == recentRequests[h]
    IN  /\ ~turns[e.by].retired => e.response = turns[e.by].received
        /\ \A i \in 1..Len(e.response) : e.response[i] \notin FillerPieces

\* a turn that wrote a keep-alive phrase and then received two deltas in two
\* reads has stored both
C10_Witness ==
  \E h \in DOMAIN recentRequests :
    LET e == recentRequests[h]
    IN  /\ ~turns[e.by].retired
        /\ Len(e.response) = 2
        /\ KeepAlives(turns[e.by].out) # {}

\* C11: of two turns that write a buffer phrase one after the other, in the
\* order of writing over all sessions, the second writes a phrase other than
\* the first's whenever its category has at least 2 initial phrases, be the two
\* categories the same or not.
C11_NoRepeatInitial ==
  \A t \in Turns :
    ( /\ Live(t) /\ turns[t].fetched /\ turns[t].after # ""
      /\ Len(matchCategory(turns[t].userText).initial) >= 2 )
    => turns[t].out[1].content # <<turns[t].after>>

\* C12: a turn whose upstream fetch is cancelled by a newer request of its
\* session, before the first byte or mid-stream, ends with [DONE] and no error
\* chunk, its response closed; it stores nothing in the dedup cache and logs no
\* assistant message; the newer turn goes on: it is superseded or cancelled only
\* by a still newer request, and while it waits its timer stays armed.
C12_Cancellation ==
  \A a \in Turns :
    (Live(a) /\ turns[a].path = "cancelled") =>
      /\ EndsWithDone(turns[a].out) /\ turns[a].ended
      /\ \A i \in 1..Len(turns[a].out) : turns[a].out[i].id # "err"
      /\ \A h \in DOMAIN recentRequests : recentRequests[h].by # a
      /\ \A i \in 1..Len(turns[a].log) : turns[a].log[i] # "assistant"
      /\ \E b \in Turns :
           /\ b > a /\ NonSilent(b) /\ turns[b].sessionId = turns[a].sessionId
           /\ \A c \in Turns :
                ( /\ a < c /\ c <= b /\ NonSilent(c)
                  /\ turns[c].sessionId = turns[a].sessionId ) => c = b
           /\ turns[b].pc = "debounce" => turns[b].timer # NoTime
           /\ turns[b].path \in {"superseded", "cancelled"} =>
                \E c \in Turns : c > b /\ NonSilent(c)
                                 /\ turns[c].sessionId = turns[b].sessionId

\* a turn cancelled while it was streaming has closed, and the newer turn has
\* started its own fetch
C12_Witness ==
  \E a \in Turns : \E b \in Turns :
    /\ a < b /\ Live(a) /\ turns[a].path = "cancelled"
    /\ \E i \in 1..Len(turns[a].out) : IsLLMContent(turns[a].out[i])
    /\ turns[b].sessionId = turns[a].sessionId
    /\ turns[b].fetched

\* the response ends with exactly one error chunk, which holds the apology,
\* and then [DONE]
ApologyThenDone(out) ==
  /\ Len(out) >= 2
  /\ out[Len(out)].k = "done"
  /\ out[Len(out) - 1].k = "chunk" /\ out[Len(out) - 1].content = ApologyText
  /\ Cardinality({i \in 1..Len(out) : out[i].k = "chunk"
                                        /\ out[i].content = ApologyText}) = 1

\* C13: a turn whose upstream answered with a non-2xx status, and which no newer
\* request cancelled, has its keep-alive timer stopped, and once closed its
\* response is the buffer phrase (and what followed it), exactly one apology
\* chunk and [DONE]; it stored nothing in the dedup cache and the session's
\* inFlight entry is no longer its own.
C13_Non2xx ==
  \A t \in Turns :
    (Live(t) /\ turns[t].status = "non2xx" /\ ~turns[t].aborted) =>
      /\ turns[t].keepAliveTimer = NoTime
      /\ turns[t].pc = "closed" =>
           /\ turns[t].out[1].id = "buf"
           /\ ApologyThenDone(turns[t].out)
           /\ turns[t].ended
           /\ \A h \in DOMAIN recentRequests : recentRequests[h].by # t
           /\ inFlight[turns[t].sessionId] # t

\* C14: a turn whose upstream fetch failed with an error that is no
\* cancellation ends with a single apology chunk followed by [DONE].
C14_TransportError ==
  \A t \in Turns :
    (Live(t) /\ turns[t].path = "error" /\ turns[t].status = "") =>
      ApologyThenDone(turns[t].out)

\* C15: once the client of an unfinished turn has disconnected, the turn's
\* keep-alive timer is stopped and its upstream fetch is aborted.
C15_ClientDisconnect ==
  \A t \in Turns :
    (turns[t].disconnected /\ Open(turns[t])) =>
      /\ turns[t].keepAliveTimer = NoTime
      /\ ~FetchActive(t)

\* C16: every turn closes its response.  A silent turn is closed as soon as it
\* has arrived.  A turn in the debounce wait has its timer armed, for an instant
\* no later than 1500 ms after its arrival, that has not passed: whatever other
\* requests arrive it leaves the wait by then, settled or superseded.  A turn
\* whose fetch was aborted is closed, unless it sleeps in the smart hold, whose
\* timer is armed for an instant no later than 2500 ms after its last phrase.
C16_EveryTurnCloses ==
  \A t \in Turns :
    /\ (Arrived(t) /\ SilentText(turns[t].userText)) => turns[t].pc = "closed"
    /\ turns[t].pc = "debounce" =>
         /\ turns[t].timer # NoTime
         /\ turns[t].clk <= turns[t].timer
         /\ turns[t].timer <= DEBOUNCE_MS
    /\ (turns[t].aborted /\ Open(turns[t])) =>
         /\ turns[t].pc = "hold"
         /\ turns[t].wake # NoTime
         /\ turns[t].clk <= turns[t].wake
         /\ turns[t].wake <= turns[t].lastChunkTime + MIN_BUFFER_SPEECH_MS

\* a turn was aborted during its smart hold and is still asleep
C16_Witness ==
  \E t \in Turns : turns[t].pc = "hold" /\ turns[t].aborted

\* turn t is received in this step
Arrives(t) == turns[t].pc = "idle" /\ turns'[t].pc # "idle"

\* C17: a step in which a request for one session is received leaves every
\* other session as it was: its inFlight entry, its pending entry, and the
\* state of its turns, none of which is aborted, superseded or closed.
C17_OtherSessionsUntouched ==
  [][ \A t \in Turns :
        Arrives(t) =>
          \A x \in Sessions \ {turns'[t].sessionId} :
            /\ inFlight'[x] = inFlight[x]
            /\ pendingRequests'[x] = pendingRequests[x]
            /\ \A u \in Turns :
                 (turns[u].sessionId = x /\ Open(turns[u])) => turns'[u] = turns[u]
    ]_vars

\* one session has a fetch in flight while a request of the other waits in
\* its debounce
C17_Witness ==
  \E x \in Sessions : \E y \in Sessions :
    /\ x # y
    /\ inFlight[x] # NoTurn /\ FetchActive(inFlight[x])
    /\ pendingRequests[y] # NoTurn /\ turns[pendingRequests[y]].pc = "debounce"

\* C18: while a turn is in its debounce wait, timer armed, the pending entry of
\* its session is the turn's own.
C18_PendingIsOwn ==
  \A t \in Turns :
    (turns[t].pc = "debounce" /\ turns[t].timer # NoTime) =>
      pendingRequests[turns[t].sessionId] = t

\* C19: the turn a pending entry belongs to is in its debounce wait: it has not
\* started its upstream fetch, is not registered as in flight and has written
\* nothing to its client.
C19_PendingNotStarted ==
  \A s \in Sessions :
    LET t == pendingRequests[s]
    IN  t # NoTurn =>
          /\ turns[t].pc = "debounce" /\ turns[t].sessionId = s
          /\ ~turns[t].fetched
          /\ inFlight[s] # t
          /\ turns[t].out = <<>>

\* a turn waits in its debounce, entered in the pending map, while an older
\* turn of the session, aborted in its smart hold, has yet to write its content
C19_Witness ==
  \E s \in Sessions : \E a \in Turns :
    /\ pendingRequests[s] # NoTurn /\ pendingRequests[s] # a
    /\ turns[a].sessionId = s /\ turns[a].pc = "hold" /\ turns[a].aborted

\* turn t ends in this step
Closes(t) == Open(turns[t]) /\ turns'[t].pc = "closed"

\* C20: a turn that ends, by other means than a newer request's abort, removes
\* the inFlight entry of its session if the entry is its own and leaves every
\* entry that is another turn's as it is.
C20_InFlightGuard ==
  [][ \A t \in Turns :
        (Closes(t) /\ \A u \in Turns : ~Arrives(u)) =>
          \A s \in Sessions :
            /\ inFlight[s] = t => inFlight'[s] = NoTurn
            /\ inFlight[s] # t => inFlight'[s] = inFlight[s]
    ]_vars

\* an old turn, aborted during its smart hold, has ended after the newer turn
\* of its session registered its own fetch, and the entry is still the newer's
C20_Witness ==
  \E a \in Turns : \E b \in Turns :
    /\ a < b /\ Live(a) /\ turns[a].path = "cancelled"
    /\ turns[b].sessionId = turns[a].sessionId
    /\ FetchActive(b) /\ inFlight[turns[b].sessionId] = b

\* C21: a non-silent turn writes its buffer phrase or its dedup answer, and
\* starts its upstream call, no earlier than 1500 ms after its own arrival,
\* whether or not other requests arrive; until then it has written nothing.
C21_FullDebounce ==
  \A t \in Turns :
    NonSilent(t) =>
      /\ turns[t].pc = "debounce" =>
           /\ turns[t].out = <<>>
           /\ ~turns[t].fetched /\ ~turns[t].lookup.found
      /\ turns[t].pc \in {"fetch", "errtext", "read", "hold"} =>
           /\ turns[t].start >= DEBOUNCE_MS
           /\ turns[t].clk >= DEBOUNCE_MS
      /\ \A i \in 1..Len(turns[t].out) :
           turns[t].out[i].id \in {"buf", "dedup"} => turns[t].out[i].at >= DEBOUNCE_MS

\* a request that arrived during the debounce of the one before it has waited
\* its own 1500 ms and written its buffer phrase
C21_Witness ==
  \E t \in Turns :
    /\ t > 1 /\ turns[t].gap < DEBOUNCE_MS
    /\ Live(t) /\ turns[t].fetched
    /\ turns[t].out[1].id = "buf" /\ turns[t].out[1].at = DEBOUNCE_MS

\* C22: once a turn has ended its keep-alive interval is stopped, whichever
\* way the turn ended, and nothing was written to its response after [DONE];
\* a turn that ended silent, superseded or as a dedup hit, and any turn that has
\* not started its upstream fetch, has no keep-alive interval.
C22_TimerStopped ==
  \A t \in Turns :
    /\ turns[t].pc = "closed" => turns[t].keepAliveTimer = NoTime
    /\ ~turns[t].late
    /\ (Live(t) /\ turns[t].ended) =>
         /\ EndsWithDone(turns[t].out)
         /\ DoneCount(turns[t].out) = 1
    /\ ~turns[t].fetched => turns[t].keepAliveTimer = NoTime
    /\ turns[t].path \in {"silent", "superseded", "dedup"} => ~turns[t].fetched

\* a turn was cancelled by a newer request after its interval had written a
\* keep-alive phrase
C22_Witness ==
  \E t \in Turns :
    /\ Live(t) /\ turns[t].pc = "closed" /\ turns[t].path = "cancelled"
    /\ KeepAlives(turns[t].out) # {}
    /\ turns[t].keepAliveTimer = NoTime

\* the instant at which the latest buffer, keep-alive or LLM content chunk of a
\* response that begins with a buffer phrase was written
LastChunkAt(out) ==
  MaxOf({out[i].at : i \in {j \in 1..Len(out) : IsFiller(out[j]) \/ IsLLMContent(out[j])}})

\* the frames this step appends to the response of turn t
NewFrames(t) ==
  SubSeq(turns'[t].out, Len(turns[t].out) + 1, Len(turns'[t].out))

\* the keep-alive interval of turn t fires in this step
TickOf(t) ==
  /\ turns[t].keepAliveTimer # NoTime
  /\ turns'[t].keepAliveTimer = turns[t].keepAliveTimer + KEEPALIVE_INTERVAL_MS

\* C23: a keep-alive phrase is written only by a tick of the turn's interval,
\* a whole number of 10 s after the buffer phrase; the tick writes one if more
\* than 9 s have passed since the latest buffer, keep-alive or LLM content chunk
\* of the response, and that phrase becomes the latest chunk; a tick that finds
\* 9 s or less writes nothing.
C23_KeepAliveOnlyWhenQuiet ==
  [][ \A t \in Turns :
        (Live(t) /\ turns[t].fetched) =>
          LET tr == turns[t]
              quiet == tr.clk - LastChunkAt(tr.out)
          IN  /\ KeepAlives(NewFrames(t)) # {} => TickOf(t)
              /\ TickOf(t) =>
                   /\ tr.clk > tr.out[1].at
                   /\ (tr.clk - tr.out[1].at) % KEEPALIVE_INTERVAL_MS = 0
                   /\ IF quiet > KEEPALIVE_INTERVAL_MS - 1000
                      THEN /\ Len(NewFrames(t)) = 1
                           /\ KeepAlives(NewFrames(t)) = {1}
                           /\ NewFrames(t)[1].at = tr.clk
                           /\ turns'[t].lastChunkTime = tr.clk
                      ELSE /\ NewFrames(t) = <<>>
                           /\ turns'[t].lastChunkTime = tr.lastChunkTime
    ]_vars

\* a tick has just found exactly 9 s since the latest chunk, an LLM content
\* chunk, and written nothing
C23_Witness ==
  \E t \in Turns :
    /\ Live(t) /\ Open(turns[t])
    /\ turns[t].keepAliveTimer = turns[t].clk + KEEPALIVE_INTERVAL_MS
    /\ IsLLMContent(turns[t].out[Len(turns[t].out)])
    /\ turns[t].clk - LastChunkAt(turns[t].out) = KEEPALIVE_INTERVAL_MS - 1000

\* the silence after which the voice platform drops the call
CascadeTimeout == 15000

\* C24: while a turn that has written its buffer phrase waits for the upstream
\* response or streams it, less than 15 s have passed since the latest buffer,
\* keep-alive or LLM content chunk of its response.
C24_NoCascadeTimeout ==
  \A t \in Turns :
    (Live(t) /\ turns[t].pc \in {"fetch", "read", "hold"}) =>
      turns[t].clk - LastChunkAt(turns[t].out) < CascadeTimeout

\* C25: in a response that begins with a buffer phrase of the category matched
\* for the turn's user text, the k-th keep-alive chunk, counted from 0 within
\* the turn, holds phrase k mod len of that category's keep-alive list.
C25_KeepAliveRoundRobin ==
  \A t \in Turns :
    (Live(t) /\ turns[t].fetched) =>
      LET out == turns[t].out
          cat == matchCategory(turns[t].userText)
          ka == KeepAlives(out)
          k(i) == Cardinality({j \in ka : j < i})
      IN  /\ \E n \in 1..Len(cat.initial) : out[1].content = <<cat.initial[n]>>
          /\ \A i \in ka :
               out[i].content = <<cat.keepAlive[(k(i) % Len(cat.keepAlive)) + 1]>>

\* a response holds more keep-alive chunks than its category has keep-alive
\* phrases: the list has started over
C25_Witness ==
  \E t \in Turns :
    /\ Live(t) /\ turns[t].fetched
    /\ Cardinality(KeepAlives(turns[t].out))
         > Len(matchCategory(turns[t].userText).keepAlive)

\* ---- the upstream stream as a reader of server-sent events takes it

\* the lines of a text that are complete: each ended by LF, a CR before it
\* taken off
CompleteLines(text) ==
  LET parts == split(text)
      strip(l) == IF l # <<>> /\ l[Len(l)] = "\r" THEN SubSeq(l, 1, Len(l) - 1) ELSE l
  IN  [i \in 1..(Len(parts) - 1) |-> strip(parts[i])]

RECURSIVE PayloadsOf(_)
PayloadsOf(lines) ==
  IF lines = <<>> THEN <<>>
  ELSE (IF startsWith(Head(lines), DataPrefix)
        THEN <<SubSeq(Head(lines), Len(DataPrefix) + 1, Len(Head(lines)))>>
        ELSE <<>>) \o PayloadsOf(Tail(lines))

\* the `data: ` payloads the upstream has sent in full, [DONE] left out
UpstreamPayloads(chunks) ==
  SelectSeq(PayloadsOf(CompleteLines(Utf8Text(Concat(chunks)))), LAMBDA x : x # DoneText)

\* what the client reads as payload in a frame the proxy passed on
RECURSIVE Forwarded(_)
Forwarded(out) ==
  IF out = <<>> THEN <<>>
  ELSE (IF Head(out).k = "data" THEN <<Head(out).text>>
        ELSE IF Head(out).k = "raw"
             THEN <<SubSeq(Head(out).text, Len(DataPrefix) + 1, Len(Head(out).text))>>
             ELSE <<>>) \o Forwarded(Tail(out))

IsPassedOn(f) == f.k \in {"data", "raw"}

\* C26: in a turn whose upstream answered 2xx, the frames passed on are `data: `
\* frames none of which holds [DONE], their payloads at any moment a prefix of
\* the payloads the upstream has sent; when the stream has run to its end they
\* are exactly the upstream's payloads other than [DONE], each once, unchanged
\* and in order, whether JSON or not, followed by the proxy's single [DONE].
C26_Passthrough ==
  \A t \in Turns :
    (Live(t) /\ turns[t].status = "ok") =>
      LET out == turns[t].out
          sent == UpstreamPayloads(turns[t].chunks)
          passed == Forwarded(out)
      IN  /\ \A i \in 1..Len(out) :
               /\ out[i].k = "raw" => startsWith(out[i].text, DataPrefix)
               /\ IsPassedOn(out[i]) => Forwarded(<<out[i]>>) # <<DoneText>>
          /\ IsPrefix(passed, sent)
          /\ turns[t].path = "normal" =>
               /\ passed = sent
               /\ DoneCount(out) = 1 /\ EndsWithDone(out)

\* a stream of two reads, a payload that is not JSON and the upstream's [DONE]
\* first, a blank line last, has run to its end
C26_Witness ==
  \E t \in Turns :
    /\ Live(t) /\ turns[t].path = "normal"
    /\ turns[t].chunks = <<R_BadDone, R_YBlank>>
    /\ Forwarded(turns[t].out) = <<<<"?">>, Json(<<"y">>)>>

\* the payloads of the lines a turn in its smart hold has yet to pass on
RECURSIVE Waiting(_)
Waiting(lines) ==
  IF lines = <<>> THEN <<>>
  ELSE (IF Head(lines).kind \in {"content", "meta"} THEN <<Head(lines).text>>
        ELSE IF Head(lines).kind = "bad"
             THEN <<SubSeq(Head(lines).text, Len(DataPrefix) + 1, Len(Head(lines).text))>>
             ELSE <<>>) \o Waiting(Tail(lines))

\* C27: what a turn has passed on, together with what it holds back in its
\* smart hold, is a function of the bytes received so far and not of the reads
\* they came in: the payloads of the complete lines of their concatenation,
\* each once and in order; the text after the last newline is kept for the
\* next read.
C27_SplitIndependent ==
  \A t \in Turns :
    (Live(t) /\ turns[t].status = "ok") =>
      LET tr == turns[t]
          text == Utf8Text(Concat(tr.chunks))
          parts == split(tr.partial \o Utf8Text(tr.pending))
      IN  /\ Forwarded(tr.out)
               \o (IF tr.pc = "hold" THEN Waiting(<<tr.held>> \o tr.rest) ELSE <<>>)
               = UpstreamPayloads(tr.chunks)
          /\ Open(tr) => /\ Len(parts) = 1
                         /\ IsPrefix(tr.partial, split(text)[Len(split(text))])

\* the stream came in two reads, the first ending between the two bytes of a
\* character in the middle of the first line, and both payloads were passed on
C27_Witness ==
  \E t \in Turns :
    /\ Live(t) /\ turns[t].path = "normal"
    /\ Len(turns[t].chunks) = 2
    /\ Concat(turns[t].chunks) = SplitStream
    /\ turns[t].chunks[1][Len(turns[t].chunks[1])] = LeadByte
    /\ Forwarded(turns[t].out) = <<<<"{", EAcute, "}">>, <<"?">>>>

\* the debounce of turn t settles in this step
Settles(t) ==
  /\ turns[t].pc = "debounce"
  /\ turns'[t].pc = "fetch" \/ (turns'[t].pc = "closed" /\ turns'[t].path = "dedup")

\* C28: the lookup of a settling turn finds a response exactly when the cache
\* holds an entry under the turn's fingerprint that is less than 15 s old, and
\* then it is that entry's text; a turn whose lookup finds nothing, the entry
\* being absent or 15 s old or older, starts its upstream fetch; the lookup
\* leaves the cache as it is, a hit refreshing nothing.
C28_DedupWindow ==
  [][ \A t \in Turns :
        Settles(t) =>
          LET h == turns'[t].reqHash
              young == h \in DOMAIN recentRequests
                       /\ recentRequests[h].age < DEDUP_WINDOW_MS
              got == turns'[t].lookup
          IN  /\ got.found <=> young
              /\ got.found => got.response = recentRequests[h].response
              /\ ~got.found => turns'[t].pc = "fetch" /\ turns'[t].fetched
              /\ turns'[t].path = "dedup" =>
                   /\ young
                   /\ OneChunkThenDone(turns'[t].out, recentRequests[h].response)
              /\ recentRequests' = recentRequests
    ]_vars

\* a turn has just settled and gone upstream although the cache holds an entry
\* under its fingerprint: the entry is exactly 15 s old
C28_Witness ==
  \E t \in Turns :
    /\ turns[t].pc = "fetch" /\ turns[t].clk = turns[t].start
    /\ ~turns[t].lookup.found
    /\ turns[t].reqHash \in DOMAIN recentRequests
    /\ recentRequests[turns[t].reqHash].age = DEDUP_WINDOW_MS

\* turn t stores its response in this step
Stores(t) == Closes(t) /\ turns'[t].path = "normal"

\* C29: right after a store the cache holds no entry older than 30 s: the
\* entries that were older are gone and the others are as they were; the entry
\* under the storing turn's fingerprint holds that turn's text and is new,
\* whether or not there was one before.
C29_EvictOnStore ==
  [][ \A t \in Turns :
        Stores(t) =>
          LET h == turns[t].reqHash
          IN  /\ \A k \in DOMAIN recentRequests' :
                   recentRequests'[k].age <= 2 * DEDUP_WINDOW_MS
              /\ h \in DOMAIN recentRequests'
              /\ recentRequests'[h].response = turns[t].llmContent
              /\ recentRequests'[h].age = 0
              /\ DOMAIN recentRequests' =
                   {h} \cup {k \in DOMAIN recentRequests :
                               recentRequests[k].age <= 2 * DEDUP_WINDOW_MS}
              /\ \A k \in DOMAIN recentRequests' \ {h} :
                   recentRequests'[k] = recentRequests[k]
    ]_vars

\* a store has just kept an entry that is exactly 30 s old
C29_Witness ==
  \E h \in DOMAIN recentRequests : \E k \in DOMAIN recentRequests :
    /\ recentRequests[h].age = 0
    /\ recentRequests[k].age = 2 * DEDUP_WINDOW_MS

\* the entry under fingerprint h is written or removed in this step
Written(h) ==
  \/ /\ h \in DOMAIN recentRequests'
     /\ \/ h \notin DOMAIN recentRequests
        \/ recentRequests'[h].response # recentRequests[h].response
        \/ recentRequests'[h].by # recentRequests[h].by
        \/ recentRequests'[h].age < recentRequests[h].age
  \/ h \in DOMAIN recentRequests /\ h \notin DOMAIN recentRequests'

\* C30: the dedup cache changes, but for the ageing of its entries, only in a
\* step in which a turn reaches the normal end of its upstream stream, and the
\* entry written is the one under that turn's fingerprint; a turn that ends any
\* other way writes nothing.
C30_OnlyNormalEndStores ==
  [][ \A h \in DOMAIN recentRequests \cup DOMAIN recentRequests' :
        Written(h) =>
          \E t \in Turns :
            /\ Stores(t)
            /\ turns[t].status = "ok" /\ ~turns[t].aborted
            /\ h \in DOMAIN recentRequests' => (h = turns[t].reqHash /\ recentRequests'[h].by = t)
    ]_vars

\* a turn was cancelled in mid-stream after it had passed on content, and the
\* cache holds nothing under its fingerprint
C30_Witness ==
  \E t \in Turns :
    /\ Live(t) /\ turns[t].path = "cancelled"
    /\ \E i \in 1..Len(turns[t].out) : IsLLMContent(turns[t].out[i])
    /\ turns[t].reqHash \notin DOMAIN recentRequests

\* C31: a turn answered from the dedup cache is answered with an entry that a
\* turn of its own session stored: the text it receives came from an upstream
\* call made for that session.
C31_DedupOwnSession ==
  \A t \in Turns :
    (Live(t) /\ turns[t].path = "dedup") =>
      /\ turns[t].reqHash \in DOMAIN recentRequests
      /\ turns[recentRequests[turns[t].reqHash].by].sessionId = turns[t].sessionId

\* C32: from the step in which a newer request aborts a turn's upstream fetch
\* on, the aborted turn writes nothing to its client but [DONE], wherever the
\* abort finds it, the smart hold included.
C32_AbortedWritesOnlyDone ==
  [][ \A t \in Turns :
        (Live(t) /\ (turns[t].aborted \/ turns'[t].aborted)) =>
          \A i \in 1..Len(NewFrames(t)) : NewFrames(t)[i].k = "done"
    ]_vars

\* C33: the step that receives a silent request leaves the shared state as it
\* was: the inFlight and pending entries of every session, its own included,
\* the dedup cache, the conversation log and the phrase index; no open turn is
\* aborted, superseded or otherwise touched, and the silent turn itself has
\* looked up nothing in the cache and logged nothing.
C33_SilentChangesNothing ==
  [][ \A t \in Turns :
        (Arrives(t) /\ SilentText(turns'[t].userText)) =>
          /\ inFlight' = inFlight
          /\ pendingRequests' = pendingRequests
          /\ recentRequests' = recentRequests
          /\ conversations' = conversations
          /\ lastInitialIdx' = lastInitialIdx
          /\ turns'[t].lookup = NoLookup /\ turns'[t].reqHash = <<>>
          /\ turns'[t].log = <<>>
          /\ \A u \in Turns \ {t} : Open(turns[u]) => turns'[u] = turns[u]
    ]_vars

\* a silent request has just been answered while an earlier turn of its
\* session has its fetch in flight, not aborted
C33_Witness ==
  \E t \in Turns : \E a \in Turns :
    /\ a < t /\ Live(t) /\ turns[t].path = "silent" /\ turns[t].clk = 0
    /\ turns[a].sessionId = turns[t].sessionId
    /\ inFlight[turns[t].sessionId] = a /\ FetchActive(a)
    /\ conversations # <<>>

\* every request of session s that has arrived has closed its response
SessionIdle(s) ==
  \A t \in Turns : (Arrived(t) /\ turns[t].sessionId = s) => turns[t].pc = "closed"

\* C34: a session none of whose turns is running has neither an inFlight entry
\* nor a pending entry, however its turns have ended.
C34_NoLeakedRecords ==
  \A s \in Sessions :
    SessionIdle(s) => (inFlight[s] = NoTurn /\ pendingRequests[s] = NoTurn)

\* the turns of a session have all closed, one cancelled by the next, which
\* ran to the normal end of its stream
C34_Witness ==
  \E a \in Turns : \E b \in Turns :
    /\ a < b /\ turns[a].sessionId = turns[b].sessionId
    /\ turns[a].path = "cancelled" /\ turns[b].path = "normal"
    /\ SessionIdle(turns[a].sessionId)
    /\ \A t \in Turns : Arrived(t)

\* the sessions the log holds, and the messages it holds of a session
Logged(convs) == {convs[i].sessionId : i \in 1..Len(convs)}

MessagesOf(convs, s) ==
  IF s \in Logged(convs)
  THEN convs[CHOOSE i \in 1..Len(convs) : convs[i].sessionId = s].messages ELSE <<>>

\* the place of the entry of session x among the entries, in the order of
\* their creation
Created(convs, x) == CHOOSE i \in 1..Len(convs) : convs[i].sessionId = x

\* C35: after an append the log holds at most 50 sessions, one entry each; the
\* message is the last of its session's, the earlier ones as they were; an
\* entry is deleted only when the append makes a 51st, and then it is the one
\* created earliest of the 50 there were, not the one appended to; every other
\* entry is as it was, and the entries stay in the order of their creation,
\* a new one last.
C35_LogCap ==
  [][ conversations' # conversations =>
        LET n == Len(conversations')
            old == Logged(conversations)
            new == Logged(conversations')
            gone == old \ new
            created == [x \in old |-> Created(conversations, x)]
        IN  /\ n <= MAX_CONVERSATIONS
            /\ Cardinality(new) = n
            /\ \E s \in new :
                 LET before == MessagesOf(conversations, s)
                     after == MessagesOf(conversations', s)
                 IN  /\ Len(after) = Len(before) + 1
                     /\ SubSeq(after, 1, Len(before)) = before
                     /\ \A x \in new \ {s} :
                          /\ x \in old
                          /\ MessagesOf(conversations', x) = MessagesOf(conversations, x)
                     /\ s \notin old => conversations'[n].sessionId = s
                     /\ \A i \in 1..(n - 1) :
                          conversations'[i + 1].sessionId \in old =>
                            created[conversations'[i].sessionId]
                              < created[conversations'[i + 1].sessionId]
                     /\ IF s \notin old /\ Len(conversations) = MAX_CONVERSATIONS
                        THEN /\ gone = {conversations[1].sessionId}
                             /\ \A x \in old \ gone :
                                  created[x] > created[conversations[1].sessionId]
                        ELSE gone = {}
    ]_vars

\* the log is full, the entry of the first session has been deleted, that
\* session has logged again and its new entry is the newest, and the oldest
\* entry holds a reply
C35_Witness ==
  /\ Len(conversations) = MAX_CONVERSATIONS
  /\ conversations[MAX_CONVERSATIONS].sessionId = 1
  /\ conversations[1].sessionId = 3
  /\ Len(conversations[1].messages) = 2

\* the categories other than fallback of which a keyword occurs in the text,
\* capitals taken for small letters, by their place in the table
Matching(text) ==
  {i \in 1..Len(PHRASE_CATEGORIES) :
     /\ PHRASE_CATEGORIES[i].name # "fallback"
     /\ \E k \in 1..Len(PHRASE_CATEGORIES[i].keywords) :
          LET kw == PHRASE_CATEGORIES[i].keywords[k]
          IN  \E at \in 0..(Len(text) - Len(kw)) :
                \A c \in 1..Len(kw) : LowerChar(text[at + c]) = kw[c]}

\* C36: the category of a turn that went upstream is the first of the table,
\* fallback left out, that has a keyword in the lower-cased user text, and
\* fallback exactly when no category has one; its buffer phrase is one of that
\* category's initial phrases.
C36_FirstMatchingCategory ==
  \A t \in Turns :
    (Live(t) /\ turns[t].fetched) =>
      LET hits == Matching(turns[t].userText)
          name == turns[t].category
      IN  /\ hits = {} <=> name = "fallback"
          /\ hits # {} =>
               \E i \in hits : /\ PHRASE_CATEGORIES[i].name = name
                                /\ \A j \in hits : i <= j
          /\ \E i \in 1..Len(PHRASE_CATEGORIES) :
               /\ PHRASE_CATEGORIES[i].name = name
               /\ \E k \in 1..Len(PHRASE_CATEGORIES[i].initial) :
                    turns[t].out[1].content = <<PHRASE_CATEGORIES[i].initial[k]>>

\* a text with a keyword of weather before a keyword of email in capitals has
\* been given the category email
C36_Witness ==
  \E t \in Turns :
    /\ Live(t) /\ turns[t].fetched
    /\ turns[t].userText = T_RainMail
    /\ Cardinality(Matching(T_RainMail)) = 2
    /\ turns[t].category = "email"

\* role, a colon and the content of a message, as the fingerprint holds them
Part(msg) == <<msg.role, ":">> \o SubSeq(msg.content, 1, Min(HASH_SLICE, Len(msg.content)))

\* the parts of the last three messages, or of all if they are fewer, with a
\* bar between one and the next
LastThree(messages) ==
  LET n == Len(messages)
  IN  CASE n = 0 -> <<>>
        [] n = 1 -> Part(messages[1])
        [] n = 2 -> Part(messages[1]) \o <<"|">> \o Part(messages[2])
        [] OTHER -> Part(messages[n - 2]) \o <<"|">> \o Part(messages[n - 1])
                      \o <<"|">> \o Part(messages[n])

\* how many times the voice hint stands in a text
Hints(content) == Cardinality({i \in 1..Len(content) : content[i] = VOICE_HINT})

\* C37: the body a turn sends upstream is the body it received, but for: the
\* vendor field, which is gone; model, which is openclaw:<agent>; stream,
\* which is true; and the content of the last user message, which is the
\* incoming content trimmed, followed by the voice hint, one more than it
\* came with.  Every other
\* message and the user field are as they came.  The turn's fingerprint is
\* that of the last three messages of the body sent.
C37_UpstreamBody ==
  \A t \in Turns :
    (Live(t) /\ turns[t].fetched) =>
      LET got == turns[t].body
          sent == turns[t].sent
          u == LastUserIdx(got.messages)
      IN  /\ ~sent.elevenlabs_extra_body
          /\ sent.model = OPENCLAW_MODEL
          /\ sent.stream
          /\ sent.user = got.user
          /\ Len(sent.messages) = Len(got.messages)
          /\ \A i \in 1..Len(got.messages) :
               /\ sent.messages[i].role = got.messages[i].role
               /\ i # u => sent.messages[i] = got.messages[i]
          /\ u > 0
          /\ sent.messages[u].content = trim(got.messages[u].content) \o <<VOICE_HINT>>
          /\ Hints(sent.messages[u].content) = Hints(got.messages[u].content) + 1
          /\ turns[t].reqHash = LastThree(sent.messages)

\* a body of four messages, the last user message the third of them and with
\* a blank in front, has been sent upstream
C37_Witness ==
  \E t \in Turns :
    /\ Live(t) /\ turns[t].fetched
    /\ turns[t].body.messages = M_Thread
    /\ turns[t].sent.messages[3].content = <<"M", "a", "i", "l", VOICE_HINT>>
    /\ turns[t].sent.messages[4] = M_Thread[4]
    /\ turns[t].reqHash # LastThree(turns[t].body.messages)

====
